---- MODULE Spec2Model ----
(***************************************************************************)
(* Model of the hybrid search service of agentic_orchestrator              *)
(* (server/src/services/search.ts): the rate limiter, the embedding cache, *)
(* generateEmbedding with its provider call and deterministic fallback,    *)
(* and the bm25 / vector / hybrid search methods built on top of it.       *)
(*                                                                         *)
(* The service runs on one JavaScript event loop: code between two awaits  *)
(* is atomic, and callers interleave only at awaits.  Every action below   *)
(* is one such atomic stretch of one call.                                 *)
(*                                                                         *)
(* Texts are sequences of UTF-16 code units.  Time is counted in ticks;    *)
(* the durations of the source (60000 ms window, 24 h TTL) and its sizes   *)
(* (500 requests, 1000 entries, 1536 dimensions) are scaled down to values *)
(* TLC can enumerate, keeping their order: window < TTL.                   *)
(***************************************************************************)
EXTENDS Integers, Sequences, FiniteSets, TLC

\* ------------------------------------------------------------------ bounds

\* number of calls that can be in flight at once
NProcs == 2

\* the clock stops advancing here
MaxTime == 4

\* the largest number of documents in the store
MaxDocs == 3

\* the largest number of documents given to batchIndexDocuments
MaxBatch == 3

\* number of run ids the orchestrator hands out
MaxRuns == 2

\* ------------------------------------------------- constants of the source

\* OPENAI_CONFIG.dimensions (1536 in the source)
dimensions == 2

\* RATE_LIMIT.maxRequestsPerMinute (500 in the source)
maxRequestsPerMinute == 2

\* the 60000 ms of checkRateLimit, in ticks
RateWindow == 2

\* CACHE_TTL (24 h in the source), in ticks
CACHE_TTL == 3

\* the cache capacity of cacheEmbedding (1000 in the source)
MaxCacheSize == 2

\* batchSize of batchIndexDocuments (10 in the source)
batchSize == 2

\* the LIMIT 100 of the two candidate lists of the hybrid query
MaxCandidates == 2

\* the 60 of 1.0 / (60 + rank) in the hybrid query
RrfK == 60

Procs == 1..NProcs

\* ------------------------------------------------------------------- texts

\* "Aa", "BB", "a", "A" and " "
Texts == { <<65, 97>>, <<66, 66>>, <<97>>, <<65>>, <<32>> }

\* the query of the searches on the store: "a"
StoreQuery == <<97>>

\* the white space trim removes: the space and the line feed stand for all of it
IsSpace(c) == c \in {32, 10}

RECURSIVE TrimStart(_)
TrimStart(s) ==
  IF s # <<>> /\ IsSpace(Head(s)) THEN TrimStart(Tail(s)) ELSE s

RECURSIVE TrimEnd(_)
TrimEnd(s) ==
  IF s # <<>> /\ IsSpace(s[Len(s)]) THEN TrimEnd(SubSeq(s, 1, Len(s) - 1)) ELSE s

\* String.prototype.trim
Trim(s) == TrimEnd(TrimStart(s))

\* String.prototype.toLowerCase on the ASCII letters
ToLowerCase(s) ==
  [i \in 1..Len(s) |-> IF s[i] >= 65 /\ s[i] <= 90 THEN s[i] + 32 ELSE s[i]]

\* String.prototype.includes
Includes(s, sub) ==
  \E i \in 0..(Len(s) - Len(sub)) : SubSeq(s, i + 1, i + Len(sub)) = sub

\* ------------------------------------------------------------- cache key

\* One round of the hash loop, hash = ((hash << 5) - hash) + char followed by
\* hash & hash, on a 32-bit integer held as <<high 16 bits, low 16 bits>>.
HashStep(h, char) ==
  LET lo == h[2] * 31 + char
      hi == h[1] * 31 + (lo \div 65536)
  IN  << hi % 65536, lo % 65536 >>

RECURSIVE HashFrom(_, _)
HashFrom(h, s) ==
  IF s = <<>> THEN h ELSE HashFrom(HashStep(h, Head(s)), Tail(s))

\* `embedding:${hash}:${text.length}`
generateCacheKey(text) == [hash |-> HashFrom(<<0, 0>>, text), length |-> Len(text)]

\* -------------------------------------------------- deterministic embedding

Coordination == <<99, 111, 111, 114, 100, 105, 110, 97, 116, 105, 111, 110>>
Database == <<100, 97, 116, 97, 98, 97, 115, 101>>
Workflow == <<119, 111, 114, 107, 102, 108, 111, 119>>
Agent == <<97, 103, 101, 110, 116>>
Orchestration == <<111, 114, 99, 104, 101, 115, 116, 114, 97, 116, 105, 111, 110>>

RECURSIVE CharSum(_, _, _)
\* sum over j >= from of charCodeAt(j) * (i + 1) * (j + 1), j counted from 0
CharSum(s, i, from) ==
  IF from >= Len(s) THEN 0
  ELSE s[from + 1] * (i + 1) * (from + 1) + CharSum(s, i, from + 1)

\* 100 * value of dimension i before the sin/cos squashing
Value100(s, i) ==
  100 * (CharSum(s, i, 0) + Len(s) * i)
  + (IF Includes(s, Coordination) THEN 10 * i ELSE 0)
  + (IF Includes(s, Database) THEN 15 * i ELSE 0)
  + (IF Includes(s, Workflow) THEN 12 * i ELSE 0)
  + (IF Includes(s, Agent) THEN 13 * i ELSE 0)
  + (IF Includes(s, Orchestration) THEN 14 * i ELSE 0)

\* The vector is a function of the per-dimension values alone (squashing and
\* normalising are fixed floating-point computations), so element i stands
\* for (sin(v/1000) + cos(0.7 v/1000)) / 2 / magnitude with v = elems[i]/100.
generateDeterministicEmbedding(text) ==
  LET normalizedText == Trim(ToLowerCase(text))
  IN  [src |-> "mock",
       elems |-> [i \in 1..dimensions |-> Value100(normalizedText, i - 1)]]

\* ------------------------------------------------------------------- state

VARIABLES
  now,           \* Date.now(), in ticks
  apiKey,        \* process.env.OPENAI_API_KEY: "" (unset), "bad" or "sk-live"
  cache,         \* EMBEDDING_CACHE: its entries in insertion order
  requestQueue,  \* RATE_LIMIT.requestQueue: the timestamps, in push order
  procs,         \* the calls in flight, one record per caller
  admitLog,      \* observer: the times at which checkRateLimit returned,
                 \*   those of the trailing window
  cacheOp,       \* observer: the last change made to the cache at this instant
  lastCall,      \* observer: the call that settled last at this instant, and
                 \*   what its caller got; none once a search began
  documents,     \* the documents table of the store
  lastRows,      \* observer: the SearchResult[] of the search that settled
                 \*   last at this instant, and the candidate lists behind
                 \*   it; none once the next search began
  batch,         \* the batchIndexDocuments call: its documents, its loop and
                 \*   what it returned
  runs           \* the runs of the orchestrator, by run id

vars == << now, apiKey, cache, requestQueue, procs, admitLog, cacheOp, lastCall,
           documents, lastRows, batch, runs >>

NoResult == [kind |-> "none"]
Vec(e) == [kind |-> "vector", embedding |-> e]
Err(m) == [kind |-> "error", message |-> m]
List(f) == [kind |-> "list", from |-> f]

\* a caller: the method it runs (op), where it stands in it (pc), its text
\* or query, its limit, what the capability probe told it, the entry time
\* and wake-up time of its checkRateLimit, and for an indexDocument call its
\* content and, when batchIndexDocuments made it, the position of its
\* document (item)
Idle == [op |-> "none", pc |-> "idle", text |-> <<>>, limit |-> 0, probe |-> "none",
         started |-> 0, wakeAt |-> 0, content |-> <<>>, item |-> 0]

NoCall == [op |-> "none"]

NoOp == [op |-> "none"]

NoRows == [from |-> "none"]

\* the SearchResult[] a search returned: its rows, the query that produced
\* them (from) and, for the hybrid query, the two candidate lists
Rows(from, limit, keyword, vector, rows) ==
  [from |-> from, limit |-> limit, keyword |-> keyword, vector |-> vector,
   rows |-> rows]

\* --------------------------------------------------------- embedding cache

\* position of the entry stored under key, 0 when there is none
CacheIndex(c, key) ==
  IF \E i \in 1..Len(c) : c[i].key = key
  THEN CHOOSE i \in 1..Len(c) : c[i].key = key
  ELSE 0

RemoveAt(c, i) == SubSeq(c, 1, i - 1) \o SubSeq(c, i + 1, Len(c))

\* getCachedEmbedding without the TTL test
getCachedEmbeddingNoTtl(c, text, t) ==
  LET i == CacheIndex(c, generateCacheKey(text))
  IN  IF i # 0
      THEN [hit |-> TRUE, embedding |-> c[i].embedding, cache |-> c, removed |-> -1]
      ELSE [hit |-> FALSE, embedding |-> <<>>, cache |-> c, removed |-> -1]

\* getCachedEmbedding at time t: the vector returned (hit) or null, the
\* cache it leaves behind, and the age of the entry it removed (-1: none)
getCachedEmbedding(c, text, t) ==
  LET i == CacheIndex(c, generateCacheKey(text))
  IN  IF i # 0 /\ t - c[i].timestamp < CACHE_TTL
      THEN [hit |-> TRUE, embedding |-> c[i].embedding, cache |-> c, removed |-> -1]
      ELSE IF i # 0
      THEN [hit |-> FALSE, embedding |-> <<>>, cache |-> RemoveAt(c, i),
            removed |-> t - c[i].timestamp]
      ELSE [hit |-> FALSE, embedding |-> <<>>, cache |-> c, removed |-> -1]

\* cacheEmbedding without the size limit
cacheEmbeddingNoLimit(c, text, embedding, t) ==
  LET entry == [key |-> generateCacheKey(text), embedding |-> embedding,
                timestamp |-> t]
      i == CacheIndex(c, entry.key)
  IN  IF i # 0 THEN [c EXCEPT ![i] = entry] ELSE Append(c, entry)

\* cacheEmbedding at time t: Map.set keeps the place of a key already
\* present and appends a new one; past the capacity the first key goes
cacheEmbedding(c, text, embedding, t) ==
  LET entry == [key |-> generateCacheKey(text), embedding |-> embedding,
                timestamp |-> t]
      i == CacheIndex(c, entry.key)
      set == IF i # 0 THEN [c EXCEPT ![i] = entry] ELSE Append(c, entry)
  IN  IF Len(set) > MaxCacheSize THEN Tail(set) ELSE set

\* what cacheEmbedding did, for the observer
WriteOp(c, text) ==
  IF CacheIndex(c, generateCacheKey(text)) = 0 /\ Len(c) + 1 > MaxCacheSize
  THEN [op |-> "evict"] ELSE [op |-> "set"]

\* what getCachedEmbedding did, for the observer
ReadOp(look) ==
  IF look.hit THEN [op |-> "hit"]
  ELSE IF look.removed >= 0 THEN [op |-> "expire", age |-> look.removed]
  ELSE NoOp

\* ------------------------------------------------------------ rate limiter

\* the filter of checkRateLimit: requests newer than one window ago
PruneQueue(q, t) == SelectSeq(q, LAMBDA ts : ts > t - RateWindow)

\* checkRateLimit up to its await, entered at time t: either the caller is
\* admitted at once (its timestamp pushed) or it goes to sleep
checkRateLimit(q, t) ==
  LET pruned == PruneQueue(q, t)
      waitTime == IF pruned # <<>> THEN RateWindow - (t - pruned[1]) ELSE 0
  IN  IF Len(pruned) >= maxRequestsPerMinute /\ waitTime > 0
      THEN [sleep |-> TRUE, queue |-> pruned, wakeAt |-> t + waitTime]
      ELSE [sleep |-> FALSE, queue |-> Append(pruned, t), wakeAt |-> 0]

\* ---------------------------------------------------------- document store

\* Scores are exact fractions <<numerator, denominator>>.
Frac(n, d) == << n, d >>

FracAdd(a, b) == << a[1] * b[2] + b[1] * a[2], a[2] * b[2] >>

FracLess(a, b) == a[1] * b[2] < b[1] * a[2]

FracEq(a, b) == a[1] * b[2] = b[1] * a[2]

\* A row of the documents table, as the query at hand sees it: tsRank is
\* ts_rank(to_tsvector(content), plainto_tsquery($1)) in hundredths, 0 when
\* the content does not match the query (@@ is false); distance is
\* embedding <=> $2 in hundredths, -1 when the embedding is NULL.
DocRows == [tsRank : 0..2, distance : -1..1]

\* the tables of n documents; the SERIAL id of a row is its position
Tables(n) == [1..n -> DocRows]

Range(seq) == { seq[i] : i \in 1..Len(seq) }

Prefix(seq, n) == SubSeq(seq, 1, IF Len(seq) < n THEN Len(seq) ELSE n)

\* what ORDER BY can produce on the rows S, precedes holding the pairs
\* <<x, y>> of rows where x sorts strictly before y: every arrangement of S
\* in which no row comes after one it must precede; rows that compare equal
\* come in any order
Orderings(S, precedes) ==
  { seq \in [1..Cardinality(S) -> S] :
      /\ \A i, j \in 1..Cardinality(S) : i # j => seq[i] # seq[j]
      /\ \A i, j \in 1..Cardinality(S) : i < j => << seq[j], seq[i] >> \notin precedes }

\* position of id in the list of ids, 0 when it is not there
Position(list, id) ==
  IF \E i \in 1..Len(list) : list[i] = id
  THEN CHOOSE i \in 1..Len(list) : list[i] = id
  ELSE 0

\* the ids of the rows whose content matches the query
Matching(docs) == { id \in DOMAIN docs : docs[id].tsRank > 0 }

\* the ids of the rows that have an embedding
Embedded(docs) == { id \in DOMAIN docs : docs[id].distance >= 0 }

\* a bm25_results CTE without its LIMIT
bm25_resultsUncapped(docs) ==
  Orderings(Matching(docs),
            { ab \in Matching(docs) \X Matching(docs) :
                docs[ab[1]].tsRank > docs[ab[2]].tsRank })
\* the bm25_results CTE: the matching rows numbered by descending ts_rank,
\* the first MaxCandidates of them; list[r] is the id of rank r.  The LIMIT
\* of the CTE has no ORDER BY of its own: it cuts the output of the window
\* aggregate, which PostgreSQL emits in the order of the window.
bm25_results(docs) ==
  { Prefix(seq, MaxCandidates) :
      seq \in Orderings(Matching(docs),
                        { ab \in Matching(docs) \X Matching(docs) :
                            docs[ab[1]].tsRank > docs[ab[2]].tsRank }) }

\* the vector_results CTE: the rows with an embedding numbered by ascending
\* distance, the first MaxCandidates of them
vector_results(docs) ==
  { Prefix(seq, MaxCandidates) :
      seq \in Orderings(Embedded(docs),
                        { ab \in Embedded(docs) \X Embedded(docs) :
                            docs[ab[1]].distance < docs[ab[2]].distance }) }

\* a score whose rank is counted from 0
RankScoreZeroBased(list, id) ==
  IF Position(list, id) # 0 THEN Frac(1, RrfK + Position(list, id) - 1) ELSE Frac(0, 1)

\* COALESCE(1.0 / (60 + rank), 0) for the row of id in a candidate list
RankScore(list, id) ==
  IF Position(list, id) # 0 THEN Frac(1, RrfK + Position(list, id)) ELSE Frac(0, 1)

\* a fusion that subtracts the vector score from the keyword score
HybridRowDifference(b, v, id) ==
  [id |-> id,
   bm25Score |-> RankScore(b, id),
   vectorScore |-> RankScore(v, id),
   hybridScore |-> FracAdd(RankScore(b, id),
                           Frac(0 - RankScore(v, id)[1], RankScore(v, id)[2]))]
\* the row the hybrid query selects for id, and its mapping to a SearchResult
HybridRow(b, v, id) ==
  [id |-> id,
   bm25Score |-> RankScore(b, id),
   vectorScore |-> RankScore(v, id),
   hybridScore |-> FracAdd(RankScore(b, id), RankScore(v, id))]

\* a hybrid query that joins from the documents table instead of from the
\* two candidate lists
HybridQueryAllDocuments(b, v, limit) ==
  LET joined == { HybridRow(b, v, id) : id \in DOMAIN documents }
  IN  { Prefix(seq, limit) :
          seq \in Orderings(joined,
                            { xy \in joined \X joined :
                                FracLess(xy[2].hybridScore, xy[1].hybridScore) }) }

\* sqlTemplates.hybridSearch on the candidate lists b and v: the full outer
\* join of the two lists, ordered by descending hybrid_score, the first
\* limit rows
HybridQuery(b, v, limit) ==
  LET joined == { HybridRow(b, v, id) : id \in Range(b) \cup Range(v) }
  IN  { Prefix(seq, limit) :
          seq \in Orderings(joined,
                            { xy \in joined \X joined :
                                FracLess(xy[2].hybridScore, xy[1].hybridScore) }) }

\* a bm25Search that maps no hybridScore
Bm25QueryUnscored(docs, limit) ==
  LET row(id) == [id |-> id,
                  bm25Score |-> Frac(docs[id].tsRank, 100),
                  vectorScore |-> Frac(0, 1),
                  hybridScore |-> Frac(0, 1)]
      rows == { row(id) : id \in Matching(docs) }
  IN  { Prefix(seq, limit) :
          seq \in Orderings(rows,
                            { xy \in rows \X rows :
                                FracLess(xy[2].bm25Score, xy[1].bm25Score) }) }

\* sqlTemplates.bm25Search and the mapping of its rows by bm25Search
Bm25Query(docs, limit) ==
  LET row(id) == [id |-> id,
                  bm25Score |-> Frac(docs[id].tsRank, 100),
                  vectorScore |-> Frac(0, 1),
                  hybridScore |-> Frac(docs[id].tsRank, 100)]
      rows == { row(id) : id \in Matching(docs) }
  IN  { Prefix(seq, limit) :
          seq \in Orderings(rows,
                            { xy \in rows \X rows :
                                FracLess(xy[2].bm25Score, xy[1].bm25Score) }) }

\* sqlTemplates.vectorSearch and the mapping of its rows by vectorSearch
VectorQuery(docs, limit) ==
  LET row(id) == [id |-> id,
                  bm25Score |-> Frac(0, 1),
                  vectorScore |-> Frac(100 - docs[id].distance, 100),
                  hybridScore |-> Frac(100 - docs[id].distance, 100)]
      rows == { row(id) : id \in Embedded(docs) }
  IN  { Prefix(seq, limit) :
          seq \in Orderings(rows,
                            { xy \in rows \X rows :
                                FracLess(xy[2].vectorScore, xy[1].vectorScore) }) }

\* ------------------------------------------------------- sample documents

\* The five documents of getSampleSearchResults, their texts as UTF-16 code
\* units; the id 'sample-k' is written -k, apart from the ids of the store.

\* 'Zero-Copy Database Forks'
SampleTitle1 ==
  << 90, 101, 114, 111, 45, 67, 111, 112, 121, 32, 68, 97, 116, 97, 98, 97,
     115, 101, 32, 70, 111, 114, 107, 115 >>

SampleContent1 ==
  << 90, 101, 114, 111, 45, 99, 111, 112, 121, 32, 100, 97, 116, 97, 98, 97,
     115, 101, 32, 102, 111, 114, 107, 115, 32, 97, 114, 101, 32, 97, 110,
     32, 97, 100, 118, 97, 110, 99, 101, 100, 32, 100, 97, 116, 97, 98, 97,
     115, 101, 32, 116, 101, 99, 104, 110, 105, 113, 117, 101, 32, 116, 104,
     97, 116, 32, 97, 108, 108, 111, 119, 115, 32, 99, 114, 101, 97, 116,
     105, 110, 103, 32, 99, 111, 112, 105, 101, 115, 32, 111, 102, 32, 100,
     97, 116, 97, 98, 97, 115, 101, 32, 105, 110, 115, 116, 97, 110, 99, 101,
     115, 32, 119, 105, 116, 104, 111, 117, 116, 32, 112, 104, 121, 115, 105,
     99, 97, 108, 108, 121, 32, 100, 117, 112, 108, 105, 99, 97, 116, 105,
     110, 103, 32, 116, 104, 101, 32, 117, 110, 100, 101, 114, 108, 121, 105,
     110, 103, 32, 100, 97, 116, 97, 32, 102, 105, 108, 101, 115, 46, 32, 73,
     110, 115, 116, 101, 97, 100, 32, 111, 102, 32, 99, 111, 112, 121, 105,
     110, 103, 32, 97, 108, 108, 32, 100, 97, 116, 97, 32, 98, 108, 111, 99,
     107, 115, 44, 32, 122, 101, 114, 111, 45, 99, 111, 112, 121, 32, 102,
     111, 114, 107, 115, 32, 117, 115, 101, 32, 99, 111, 112, 121, 45, 111,
     110, 45, 119, 114, 105, 116, 101, 32, 115, 101, 109, 97, 110, 116, 105,
     99, 115, 32, 119, 104, 101, 114, 101, 32, 116, 104, 101, 32, 102, 111,
     114, 107, 101, 100, 32, 100, 97, 116, 97, 98, 97, 115, 101, 32, 115,
     104, 97, 114, 101, 115, 32, 116, 104, 101, 32, 115, 97, 109, 101, 32,
     112, 104, 121, 115, 105, 99, 97, 108, 32, 115, 116, 111, 114, 97, 103,
     101, 32, 117, 110, 116, 105, 108, 32, 109, 111, 100, 105, 102, 105, 99,
     97, 116, 105, 111, 110, 115, 32, 111, 99, 99, 117, 114, 46, 32, 84, 104,
     105, 115, 32, 97, 112, 112, 114, 111, 97, 99, 104, 32, 100, 114, 97,
     109, 97, 116, 105, 99, 97, 108, 108, 121, 32, 114, 101, 100, 117, 99,
     101, 115, 32, 116, 104, 101, 32, 116, 105, 109, 101, 32, 97, 110, 100,
     32, 115, 116, 111, 114, 97, 103, 101, 32, 115, 112, 97, 99, 101, 32,
     114, 101, 113, 117, 105, 114, 101, 100, 32, 116, 111, 32, 99, 114, 101,
     97, 116, 101, 32, 100, 97, 116, 97, 98, 97, 115, 101, 32, 99, 111, 112,
     105, 101, 115, 32, 102, 111, 114, 32, 116, 101, 115, 116, 105, 110, 103,
     44, 32, 100, 101, 118, 101, 108, 111, 112, 109, 101, 110, 116, 44, 32,
     111, 114, 32, 97, 110, 97, 108, 121, 116, 105, 99, 115, 32, 119, 111,
     114, 107, 108, 111, 97, 100, 115, 46, 32, 80, 111, 112, 117, 108, 97,
     114, 32, 105, 109, 112, 108, 101, 109, 101, 110, 116, 97, 116, 105, 111,
     110, 115, 32, 105, 110, 99, 108, 117, 100, 101, 32, 80, 111, 115, 116,
     103, 114, 101, 83, 81, 76, 32, 119, 105, 116, 104, 32, 112, 103, 95, 98,
     97, 115, 101, 98, 97, 99, 107, 117, 112, 44, 32, 77, 121, 83, 81, 76,
     32, 119, 105, 116, 104, 32, 98, 105, 110, 97, 114, 121, 32, 108, 111,
     103, 115, 44, 32, 97, 110, 100, 32, 115, 112, 101, 99, 105, 97, 108,
     105, 122, 101, 100, 32, 115, 121, 115, 116, 101, 109, 115, 32, 108, 105,
     107, 101, 32, 78, 101, 111, 110, 32, 97, 110, 100, 32, 80, 108, 97, 110,
     101, 116, 83, 99, 97, 108, 101, 32, 116, 104, 97, 116, 32, 98, 117, 105,
     108, 116, 32, 122, 101, 114, 111, 45, 99, 111, 112, 121, 32, 98, 114,
     97, 110, 99, 104, 105, 110, 103, 32, 105, 110, 116, 111, 32, 116, 104,
     101, 105, 114, 32, 97, 114, 99, 104, 105, 116, 101, 99, 116, 117, 114,
     101, 32, 102, 114, 111, 109, 32, 116, 104, 101, 32, 103, 114, 111, 117,
     110, 100, 32, 117, 112, 46 >>

\* 'fork', 'zero-copy', 'performance'
SampleTags1 ==
  << << 102, 111, 114, 107 >>,
     << 122, 101, 114, 111, 45, 99, 111, 112, 121 >>,
     << 112, 101, 114, 102, 111, 114, 109, 97, 110, 99, 101 >> >>

\* 'Database Performance Optimization'
SampleTitle2 ==
  << 68, 97, 116, 97, 98, 97, 115, 101, 32, 80, 101, 114, 102, 111, 114, 109,
     97, 110, 99, 101, 32, 79, 112, 116, 105, 109, 105, 122, 97, 116, 105,
     111, 110 >>

SampleContent2 ==
  << 68, 97, 116, 97, 98, 97, 115, 101, 32, 112, 101, 114, 102, 111, 114,
     109, 97, 110, 99, 101, 32, 111, 112, 116, 105, 109, 105, 122, 97, 116,
     105, 111, 110, 32, 105, 110, 118, 111, 108, 118, 101, 115, 32, 109, 117,
     108, 116, 105, 112, 108, 101, 32, 115, 116, 114, 97, 116, 101, 103, 105,
     101, 115, 32, 105, 110, 99, 108, 117, 100, 105, 110, 103, 32, 105, 110,
     100, 101, 120, 105, 110, 103, 44, 32, 113, 117, 101, 114, 121, 32, 111,
     112, 116, 105, 109, 105, 122, 97, 116, 105, 111, 110, 44, 32, 99, 111,
     110, 110, 101, 99, 116, 105, 111, 110, 32, 112, 111, 111, 108, 105, 110,
     103, 44, 32, 97, 110, 100, 32, 99, 97, 99, 104, 105, 110, 103, 32, 109,
     101, 99, 104, 97, 110, 105, 115, 109, 115, 46, 32, 80, 114, 111, 112,
     101, 114, 32, 105, 110, 100, 101, 120, 105, 110, 103, 32, 105, 115, 32,
     99, 114, 117, 99, 105, 97, 108, 32, 102, 111, 114, 32, 102, 97, 115,
     116, 32, 113, 117, 101, 114, 121, 32, 101, 120, 101, 99, 117, 116, 105,
     111, 110, 44, 32, 119, 104, 105, 108, 101, 32, 113, 117, 101, 114, 121,
     32, 111, 112, 116, 105, 109, 105, 122, 97, 116, 105, 111, 110, 32, 101,
     110, 115, 117, 114, 101, 115, 32, 101, 102, 102, 105, 99, 105, 101, 110,
     116, 32, 83, 81, 76, 32, 101, 120, 101, 99, 117, 116, 105, 111, 110, 32,
     112, 108, 97, 110, 115, 46, 32, 67, 111, 110, 110, 101, 99, 116, 105,
     111, 110, 32, 112, 111, 111, 108, 105, 110, 103, 32, 114, 101, 100, 117,
     99, 101, 115, 32, 116, 104, 101, 32, 111, 118, 101, 114, 104, 101, 97,
     100, 32, 111, 102, 32, 101, 115, 116, 97, 98, 108, 105, 115, 104, 105,
     110, 103, 32, 100, 97, 116, 97, 98, 97, 115, 101, 32, 99, 111, 110, 110,
     101, 99, 116, 105, 111, 110, 115, 44, 32, 97, 110, 100, 32, 99, 97, 99,
     104, 105, 110, 103, 32, 108, 97, 121, 101, 114, 115, 32, 108, 105, 107,
     101, 32, 82, 101, 100, 105, 115, 32, 99, 97, 110, 32, 100, 114, 97, 109,
     97, 116, 105, 99, 97, 108, 108, 121, 32, 114, 101, 100, 117, 99, 101,
     32, 100, 97, 116, 97, 98, 97, 115, 101, 32, 108, 111, 97, 100, 32, 98,
     121, 32, 115, 116, 111, 114, 105, 110, 103, 32, 102, 114, 101, 113, 117,
     101, 110, 116, 108, 121, 32, 97, 99, 99, 101, 115, 115, 101, 100, 32,
     100, 97, 116, 97, 32, 105, 110, 32, 109, 101, 109, 111, 114, 121, 46,
     32, 65, 100, 100, 105, 116, 105, 111, 110, 97, 108, 32, 116, 101, 99,
     104, 110, 105, 113, 117, 101, 115, 32, 105, 110, 99, 108, 117, 100, 101,
     32, 100, 97, 116, 97, 98, 97, 115, 101, 32, 115, 104, 97, 114, 100, 105,
     110, 103, 44, 32, 114, 101, 97, 100, 32, 114, 101, 112, 108, 105, 99,
     97, 115, 44, 32, 97, 110, 100, 32, 113, 117, 101, 114, 121, 32, 114,
     101, 115, 117, 108, 116, 32, 99, 97, 99, 104, 105, 110, 103, 46 >>

\* 'performance', 'optimization', 'indexing'
SampleTags2 ==
  << << 112, 101, 114, 102, 111, 114, 109, 97, 110, 99, 101 >>,
     << 111, 112, 116, 105, 109, 105, 122, 97, 116, 105, 111, 110 >>,
     << 105, 110, 100, 101, 120, 105, 110, 103 >> >>

\* 'Multi-Agent Database Orchestration'
SampleTitle3 ==
  << 77, 117, 108, 116, 105, 45, 65, 103, 101, 110, 116, 32, 68, 97, 116, 97,
     98, 97, 115, 101, 32, 79, 114, 99, 104, 101, 115, 116, 114, 97, 116,
     105, 111, 110 >>

SampleContent3 ==
  << 77, 117, 108, 116, 105, 45, 97, 103, 101, 110, 116, 32, 100, 97, 116,
     97, 98, 97, 115, 101, 32, 111, 114, 99, 104, 101, 115, 116, 114, 97,
     116, 105, 111, 110, 32, 105, 110, 118, 111, 108, 118, 101, 115, 32, 99,
     111, 111, 114, 100, 105, 110, 97, 116, 105, 110, 103, 32, 109, 117, 108,
     116, 105, 112, 108, 101, 32, 97, 117, 116, 111, 110, 111, 109, 111, 117,
     115, 32, 97, 103, 101, 110, 116, 115, 32, 116, 111, 32, 109, 97, 110,
     97, 103, 101, 32, 100, 97, 116, 97, 98, 97, 115, 101, 32, 111, 112, 101,
     114, 97, 116, 105, 111, 110, 115, 44, 32, 115, 99, 104, 101, 109, 97,
     32, 99, 104, 97, 110, 103, 101, 115, 44, 32, 97, 110, 100, 32, 100, 97,
     116, 97, 32, 119, 111, 114, 107, 102, 108, 111, 119, 115, 46, 32, 84,
     104, 105, 115, 32, 97, 112, 112, 114, 111, 97, 99, 104, 32, 101, 110,
     97, 98, 108, 101, 115, 32, 100, 105, 115, 116, 114, 105, 98, 117, 116,
     101, 100, 32, 100, 101, 99, 105, 115, 105, 111, 110, 45, 109, 97, 107,
     105, 110, 103, 32, 102, 111, 114, 32, 100, 97, 116, 97, 98, 97, 115,
     101, 32, 109, 97, 110, 97, 103, 101, 109, 101, 110, 116, 32, 116, 97,
     115, 107, 115, 44, 32, 119, 104, 101, 114, 101, 32, 69, 84, 76, 32, 97,
     103, 101, 110, 116, 115, 32, 104, 97, 110, 100, 108, 101, 32, 100, 97,
     116, 97, 32, 101, 120, 116, 114, 97, 99, 116, 105, 111, 110, 32, 97,
     110, 100, 32, 116, 114, 97, 110, 115, 102, 111, 114, 109, 97, 116, 105,
     111, 110, 44, 32, 115, 101, 97, 114, 99, 104, 32, 97, 103, 101, 110,
     116, 115, 32, 109, 97, 110, 97, 103, 101, 32, 113, 117, 101, 114, 121,
     32, 111, 112, 116, 105, 109, 105, 122, 97, 116, 105, 111, 110, 44, 32,
     97, 110, 97, 108, 121, 115, 116, 32, 97, 103, 101, 110, 116, 115, 32,
     112, 101, 114, 102, 111, 114, 109, 32, 100, 97, 116, 97, 32, 97, 110,
     97, 108, 121, 115, 105, 115, 44, 32, 97, 110, 100, 32, 68, 66, 65, 32,
     97, 103, 101, 110, 116, 115, 32, 101, 120, 101, 99, 117, 116, 101, 32,
     115, 99, 104, 101, 109, 97, 32, 109, 111, 100, 105, 102, 105, 99, 97,
     116, 105, 111, 110, 115, 46, 32, 84, 104, 101, 32, 111, 114, 99, 104,
     101, 115, 116, 114, 97, 116, 105, 111, 110, 32, 115, 121, 115, 116, 101,
     109, 32, 117, 115, 101, 115, 32, 119, 111, 114, 107, 102, 108, 111, 119,
     32, 101, 110, 103, 105, 110, 101, 115, 32, 108, 105, 107, 101, 32, 76,
     97, 110, 103, 71, 114, 97, 112, 104, 32, 116, 111, 32, 99, 111, 111,
     114, 100, 105, 110, 97, 116, 101, 32, 97, 103, 101, 110, 116, 32, 105,
     110, 116, 101, 114, 97, 99, 116, 105, 111, 110, 115, 32, 97, 110, 100,
     32, 101, 110, 115, 117, 114, 101, 32, 99, 111, 110, 115, 105, 115, 116,
     101, 110, 116, 32, 100, 97, 116, 97, 98, 97, 115, 101, 32, 115, 116, 97,
     116, 101, 32, 97, 99, 114, 111, 115, 115, 32, 111, 112, 101, 114, 97,
     116, 105, 111, 110, 115, 46 >>

\* 'agents', 'workflow', 'coordination'
SampleTags3 ==
  << << 97, 103, 101, 110, 116, 115 >>,
     << 119, 111, 114, 107, 102, 108, 111, 119 >>,
     << 99, 111, 111, 114, 100, 105, 110, 97, 116, 105, 111, 110 >> >>

\* 'Hybrid Search Implementation'
SampleTitle4 ==
  << 72, 121, 98, 114, 105, 100, 32, 83, 101, 97, 114, 99, 104, 32, 73, 109,
     112, 108, 101, 109, 101, 110, 116, 97, 116, 105, 111, 110 >>

SampleContent4 ==
  << 72, 121, 98, 114, 105, 100, 32, 115, 101, 97, 114, 99, 104, 32, 99, 111,
     109, 98, 105, 110, 101, 115, 32, 116, 114, 97, 100, 105, 116, 105, 111,
     110, 97, 108, 32, 102, 117, 108, 108, 45, 116, 101, 120, 116, 32, 115,
     101, 97, 114, 99, 104, 32, 40, 66, 77, 50, 53, 41, 32, 119, 105, 116,
     104, 32, 109, 111, 100, 101, 114, 110, 32, 118, 101, 99, 116, 111, 114,
     32, 115, 105, 109, 105, 108, 97, 114, 105, 116, 121, 32, 115, 101, 97,
     114, 99, 104, 32, 116, 111, 32, 112, 114, 111, 118, 105, 100, 101, 32,
     109, 111, 114, 101, 32, 97, 99, 99, 117, 114, 97, 116, 101, 32, 97, 110,
     100, 32, 99, 111, 110, 116, 101, 120, 116, 117, 97, 108, 108, 121, 32,
     114, 101, 108, 101, 118, 97, 110, 116, 32, 114, 101, 115, 117, 108, 116,
     115, 46, 32, 66, 77, 50, 53, 32, 101, 120, 99, 101, 108, 115, 32, 97,
     116, 32, 101, 120, 97, 99, 116, 32, 107, 101, 121, 119, 111, 114, 100,
     32, 109, 97, 116, 99, 104, 105, 110, 103, 32, 97, 110, 100, 32, 116,
     101, 114, 109, 32, 102, 114, 101, 113, 117, 101, 110, 99, 121, 32, 97,
     110, 97, 108, 121, 115, 105, 115, 44, 32, 119, 104, 105, 108, 101, 32,
     118, 101, 99, 116, 111, 114, 32, 115, 101, 97, 114, 99, 104, 32, 117,
     115, 105, 110, 103, 32, 101, 109, 98, 101, 100, 100, 105, 110, 103, 115,
     32, 99, 97, 112, 116, 117, 114, 101, 115, 32, 115, 101, 109, 97, 110,
     116, 105, 99, 32, 109, 101, 97, 110, 105, 110, 103, 32, 97, 110, 100,
     32, 99, 111, 110, 116, 101, 120, 116, 46, 32, 84, 104, 101, 32, 99, 111,
     109, 98, 105, 110, 97, 116, 105, 111, 110, 32, 117, 115, 101, 115, 32,
     116, 101, 99, 104, 110, 105, 113, 117, 101, 115, 32, 108, 105, 107, 101,
     32, 82, 101, 99, 105, 112, 114, 111, 99, 97, 108, 32, 82, 97, 110, 107,
     32, 70, 117, 115, 105, 111, 110, 32, 40, 82, 82, 70, 41, 32, 116, 111,
     32, 109, 101, 114, 103, 101, 32, 114, 101, 115, 117, 108, 116, 115, 32,
     102, 114, 111, 109, 32, 98, 111, 116, 104, 32, 97, 112, 112, 114, 111,
     97, 99, 104, 101, 115, 44, 32, 116, 121, 112, 105, 99, 97, 108, 108,
     121, 32, 97, 99, 104, 105, 101, 118, 105, 110, 103, 32, 98, 101, 116,
     116, 101, 114, 32, 112, 114, 101, 99, 105, 115, 105, 111, 110, 32, 97,
     110, 100, 32, 114, 101, 99, 97, 108, 108, 32, 116, 104, 97, 110, 32,
     101, 105, 116, 104, 101, 114, 32, 109, 101, 116, 104, 111, 100, 32, 97,
     108, 111, 110, 101, 46, 32, 73, 109, 112, 108, 101, 109, 101, 110, 116,
     97, 116, 105, 111, 110, 32, 111, 102, 116, 101, 110, 32, 105, 110, 118,
     111, 108, 118, 101, 115, 32, 80, 111, 115, 116, 103, 114, 101, 83, 81,
     76, 32, 119, 105, 116, 104, 32, 112, 103, 118, 101, 99, 116, 111, 114,
     32, 101, 120, 116, 101, 110, 115, 105, 111, 110, 32, 102, 111, 114, 32,
     118, 101, 99, 116, 111, 114, 32, 111, 112, 101, 114, 97, 116, 105, 111,
     110, 115, 46 >>

\* 'hybrid', 'bm25', 'vector', 'embeddings'
SampleTags4 ==
  << << 104, 121, 98, 114, 105, 100 >>,
     << 98, 109, 50, 53 >>,
     << 118, 101, 99, 116, 111, 114 >>,
     << 101, 109, 98, 101, 100, 100, 105, 110, 103, 115 >> >>

\* 'Database Fork Management'
SampleTitle5 ==
  << 68, 97, 116, 97, 98, 97, 115, 101, 32, 70, 111, 114, 107, 32, 77, 97,
     110, 97, 103, 101, 109, 101, 110, 116 >>

SampleContent5 ==
  << 68, 97, 116, 97, 98, 97, 115, 101, 32, 102, 111, 114, 107, 32, 109, 97,
     110, 97, 103, 101, 109, 101, 110, 116, 32, 105, 110, 118, 111, 108, 118,
     101, 115, 32, 99, 114, 101, 97, 116, 105, 110, 103, 44, 32, 109, 97,
     105, 110, 116, 97, 105, 110, 105, 110, 103, 44, 32, 97, 110, 100, 32,
     109, 101, 114, 103, 105, 110, 103, 32, 100, 97, 116, 97, 98, 97, 115,
     101, 32, 98, 114, 97, 110, 99, 104, 101, 115, 32, 102, 111, 114, 32,
     100, 101, 118, 101, 108, 111, 112, 109, 101, 110, 116, 44, 32, 116, 101,
     115, 116, 105, 110, 103, 44, 32, 97, 110, 100, 32, 97, 110, 97, 108,
     121, 116, 105, 99, 115, 32, 112, 117, 114, 112, 111, 115, 101, 115, 46,
     32, 77, 111, 100, 101, 114, 110, 32, 100, 97, 116, 97, 98, 97, 115, 101,
     32, 112, 108, 97, 116, 102, 111, 114, 109, 115, 32, 112, 114, 111, 118,
     105, 100, 101, 32, 65, 80, 73, 115, 32, 102, 111, 114, 32, 112, 114,
     111, 103, 114, 97, 109, 109, 97, 116, 105, 99, 32, 102, 111, 114, 107,
     32, 99, 114, 101, 97, 116, 105, 111, 110, 44, 32, 97, 108, 108, 111,
     119, 105, 110, 103, 32, 100, 101, 118, 101, 108, 111, 112, 101, 114,
     115, 32, 116, 111, 32, 115, 112, 105, 110, 32, 117, 112, 32, 105, 115,
     111, 108, 97, 116, 101, 100, 32, 100, 97, 116, 97, 98, 97, 115, 101, 32,
     99, 111, 112, 105, 101, 115, 32, 102, 111, 114, 32, 102, 101, 97, 116,
     117, 114, 101, 32, 100, 101, 118, 101, 108, 111, 112, 109, 101, 110,
     116, 32, 111, 114, 32, 100, 97, 116, 97, 32, 97, 110, 97, 108, 121, 115,
     105, 115, 46, 32, 70, 111, 114, 107, 32, 109, 97, 110, 97, 103, 101,
     109, 101, 110, 116, 32, 105, 110, 99, 108, 117, 100, 101, 115, 32, 104,
     97, 110, 100, 108, 105, 110, 103, 32, 115, 99, 104, 101, 109, 97, 32,
     109, 105, 103, 114, 97, 116, 105, 111, 110, 115, 44, 32, 100, 97, 116,
     97, 32, 115, 121, 110, 99, 104, 114, 111, 110, 105, 122, 97, 116, 105,
     111, 110, 44, 32, 99, 111, 110, 102, 108, 105, 99, 116, 32, 114, 101,
     115, 111, 108, 117, 116, 105, 111, 110, 44, 32, 97, 110, 100, 32, 97,
     117, 116, 111, 109, 97, 116, 101, 100, 32, 99, 108, 101, 97, 110, 117,
     112, 32, 111, 102, 32, 117, 110, 117, 115, 101, 100, 32, 102, 111, 114,
     107, 115, 46, 32, 65, 100, 118, 97, 110, 99, 101, 100, 32, 112, 108, 97,
     116, 102, 111, 114, 109, 115, 32, 111, 102, 102, 101, 114, 32, 122, 101,
     114, 111, 45, 100, 111, 119, 110, 116, 105, 109, 101, 32, 109, 101, 114,
     103, 105, 110, 103, 32, 97, 110, 100, 32, 114, 111, 108, 108, 98, 97,
     99, 107, 32, 99, 97, 112, 97, 98, 105, 108, 105, 116, 105, 101, 115,
     46 >>

\* 'fork', 'management', 'branching'
SampleTags5 ==
  << << 102, 111, 114, 107 >>,
     << 109, 97, 110, 97, 103, 101, 109, 101, 110, 116 >>,
     << 98, 114, 97, 110, 99, 104, 105, 110, 103 >> >>

sampleDocs ==
  << [id |-> -1, title |-> SampleTitle1, content |-> SampleContent1,
      tags |-> SampleTags1],
     [id |-> -2, title |-> SampleTitle2, content |-> SampleContent2,
      tags |-> SampleTags2],
     [id |-> -3, title |-> SampleTitle3, content |-> SampleContent3,
      tags |-> SampleTags3],
     [id |-> -4, title |-> SampleTitle4, content |-> SampleContent4,
      tags |-> SampleTags4],
     [id |-> -5, title |-> SampleTitle5, content |-> SampleContent5,
      tags |-> SampleTags5] >>

\* getSampleSearchResults(query, limit): the sample documents whose title,
\* content or tags include the query, all of them when none does; the first
\* limit of them, scored by their index (in hundredths)
getSampleSearchResults(query, limit) ==
  LET queryLower == ToLowerCase(query)
      relevant(doc) ==
        \/ Includes(ToLowerCase(doc.title), queryLower)
        \/ Includes(ToLowerCase(doc.content), queryLower)
        \/ \E t \in 1..Len(doc.tags) : Includes(ToLowerCase(doc.tags[t]), queryLower)
      filteredDocs == SelectSeq(sampleDocs, relevant)
      docsToReturn == IF Len(filteredDocs) > 0 THEN filteredDocs ELSE sampleDocs
      sliced == Prefix(docsToReturn, limit)
  IN  [k \in 1..Len(sliced) |->
         [id |-> sliced[k].id,
          bm25Score |-> Frac(90 - (k - 1) * 10, 100),
          vectorScore |-> Frac(85 - (k - 1) * 10, 100),
          hybridScore |-> Frac(90 - (k - 1) * 10, 100)]]

\* ------------------------------------------------------- generateEmbedding

EmptyTextMessage == "Cannot generate embedding for empty text"
RateLimitMessage == "OpenAI API rate limit exceeded"
AuthMessage == "OpenAI API authentication failed - check your API key"
ServerMessage == "OpenAI API server error - try again later"
OtherStatusMessage == "OpenAI API error: Bad Request"
InvalidResponseMessage == "Invalid response from OpenAI API"
InvalidDimensionsMessage == "Invalid embedding dimensions"
TimedOutMessage == "OpenAI API request timed out"
NetworkMessage == "fetch failed"
JsonMessage == "Unexpected token in JSON"
UsageMessage == "Cannot read properties of undefined (reading 'total_tokens')"

\* error.message.includes('rate limit') || error.message.includes('timed out')
IsApiIssue(message) == message \in {RateLimitMessage, TimedOutMessage}

\* an outer catch that answers every error with the fallback
CatchEmbeddingAlways(text, message) ==
  Vec(generateDeterministicEmbedding(Trim(text)))

\* the outer catch of generateEmbedding
CatchEmbedding(text, message) ==
  IF IsApiIssue(message)
  THEN Vec(generateDeterministicEmbedding(Trim(text)))
  ELSE Err(message)

\* openaiApiKey && openaiApiKey.startsWith('sk-')
HasCredential == apiKey = "sk-live"

\* the vectors the provider may answer with: two of the right length, and
\* one too short and one too long
ProviderEmbeddings ==
  { [src |-> "openai", elems |-> [i \in 1..dimensions |-> c]] : c \in 1..2 }
  \cup { [src |-> "openai", elems |-> [i \in 1..n |-> 1]] :
            n \in {dimensions - 1, dimensions + 1} }

\* what the fetch can come back with: a non-OK status, an abort by the
\* timeout, a network error, a body that is no JSON, or a JSON body
ProviderResponses ==
  { [kind |-> "status", status |-> st] : st \in {400, 401, 429, 500} }
  \cup { [kind |-> "abort"], [kind |-> "network"], [kind |-> "notjson"] }
  \cup { [kind |-> "json", data |-> <<>>, usage |-> TRUE] }
  \cup { [kind |-> "json", data |-> <<e>>, usage |-> TRUE] : e \in ProviderEmbeddings }
  \cup { [kind |-> "json", data |-> <<e>>, usage |-> FALSE] :
            e \in { x \in ProviderEmbeddings : x.elems = [i \in 1..dimensions |-> 1] } }

\* the error thrown for a non-OK status
StatusMessage(status) ==
  IF status = 429 THEN RateLimitMessage
  ELSE IF status = 401 THEN AuthMessage
  ELSE IF status >= 500 THEN ServerMessage
  ELSE OtherStatusMessage

\* FinishFetch without the validation of the vector's length
FinishFetchNoValidation(text, r, c, t) ==
  LET cleanText == Trim(text)
      failed(message) ==
        [emb |-> CatchEmbedding(text, message), cache |-> c, wr |-> NoOp]
  IN  IF r.kind = "status" THEN failed(StatusMessage(r.status))
      ELSE IF r.kind = "abort" THEN failed(TimedOutMessage)
      ELSE IF r.kind = "network" THEN failed(NetworkMessage)
      ELSE IF r.kind = "notjson" THEN failed(JsonMessage)
      ELSE IF Len(r.data) = 0 THEN failed(InvalidResponseMessage)
      ELSE [emb |-> IF r.usage THEN Vec(r.data[1])
                    ELSE CatchEmbedding(text, UsageMessage),
            cache |-> cacheEmbedding(c, cleanText, r.data[1], t),
            wr |-> WriteOp(c, cleanText)]

\* generateEmbedding from the response r of its fetch on, at time t with
\* cache c: how the call settles, the cache it leaves and the write it made
FinishFetch(text, r, c, t) ==
  LET cleanText == Trim(text)
      failed(message) ==
        [emb |-> CatchEmbedding(text, message), cache |-> c, wr |-> NoOp]
  IN  IF r.kind = "status" THEN failed(StatusMessage(r.status))
      ELSE IF r.kind = "abort" THEN failed(TimedOutMessage)
      ELSE IF r.kind = "network" THEN failed(NetworkMessage)
      ELSE IF r.kind = "notjson" THEN failed(JsonMessage)
      ELSE IF Len(r.data) = 0 THEN failed(InvalidResponseMessage)
      ELSE IF Len(r.data[1].elems) # dimensions THEN failed(InvalidDimensionsMessage)
      ELSE [emb |-> IF r.usage THEN Vec(r.data[1])
                    ELSE CatchEmbedding(text, UsageMessage),
            cache |-> cacheEmbedding(c, cleanText, r.data[1], t),
            wr |-> WriteOp(c, cleanText)]

\* StartEmbedding with the credential test ahead of the cache lookup
StartEmbeddingKeyFirst(text, c, q, t) ==
  LET cleanText == Trim(text)
      look == getCachedEmbedding(c, cleanText, t)
      limit == checkRateLimit(q, t)
      mockEmbedding == generateDeterministicEmbedding(cleanText)
  IN  IF Len(Trim(text)) = 0
      THEN [phase |-> "settled", emb |-> CatchEmbedding(text, EmptyTextMessage),
            cache |-> c, queue |-> q, wakeAt |-> 0, wr |-> NoOp]
      ELSE IF HasCredential
      THEN [phase |-> IF limit.sleep THEN "sleep" ELSE "admitted", emb |-> NoResult,
            cache |-> c, queue |-> limit.queue, wakeAt |-> limit.wakeAt,
            wr |-> NoOp]
      ELSE IF look.hit
      THEN [phase |-> "settled", emb |-> Vec(look.embedding),
            cache |-> look.cache, queue |-> q, wakeAt |-> 0, wr |-> ReadOp(look)]
      ELSE [phase |-> "settled", emb |-> Vec(mockEmbedding),
            cache |-> cacheEmbedding(look.cache, cleanText, mockEmbedding, t),
            queue |-> q, wakeAt |-> 0, wr |-> WriteOp(look.cache, cleanText)]

\* generateEmbedding from its entry to its first await (or to its end), at
\* time t with cache c and rate window q
StartEmbedding(text, c, q, t) ==
  LET cleanText == Trim(text)
      look == getCachedEmbedding(c, cleanText, t)
      limit == checkRateLimit(q, t)
      mockEmbedding == generateDeterministicEmbedding(cleanText)
  IN  IF Len(Trim(text)) = 0
      THEN [phase |-> "settled", emb |-> CatchEmbedding(text, EmptyTextMessage),
            cache |-> c, queue |-> q, wakeAt |-> 0, wr |-> NoOp]
      ELSE IF look.hit
      THEN [phase |-> "settled", emb |-> Vec(look.embedding),
            cache |-> look.cache, queue |-> q, wakeAt |-> 0, wr |-> ReadOp(look)]
      ELSE IF HasCredential
      THEN [phase |-> IF limit.sleep THEN "sleep" ELSE "admitted", emb |-> NoResult,
            cache |-> look.cache, queue |-> limit.queue, wakeAt |-> limit.wakeAt,
            wr |-> ReadOp(look)]
      ELSE [phase |-> "settled", emb |-> Vec(mockEmbedding),
            cache |-> cacheEmbedding(look.cache, cleanText, mockEmbedding, t),
            queue |-> q, wakeAt |-> 0, wr |-> WriteOp(look.cache, cleanText)]

\* ----------------------------------------------------------------- actions

Free(p) == procs[p].pc = "idle"

\* the rate window's observer keeps the returns of the trailing window
TrailingLog(log, t) == SelectSeq(log, LAMBDA at : at > t - RateWindow)

\* the observer's record of a call that settled
Call(rec, result) == [op |-> rec.op, text |-> rec.text, result |-> result]

\* bm25Search is called: its store query is in flight
CallBm25(rec) == [rec EXCEPT !.pc = "bm25", !.started = 0, !.wakeAt = 0]

\* the id an indexDocument call returned
Id(n) == [kind |-> "id", id |-> n]

\* the ids a batchIndexDocuments call returned
Ids(list) == [kind |-> "ids", ids |-> list]

\* no batchIndexDocuments call was made
NoBatch == [pc |-> "idle"]

\* the documents of the current round of the loop of batchIndexDocuments:
\* documents.slice(i, i + batchSize), by position
BatchItems(b) ==
  { k \in 1..Len(b.docs) : k > b.i /\ k <= b.i + batchSize }

\* A batchIndexDocuments call b learns that the indexDocument call of its
\* document item settled with result.  While it awaits Promise.all, a
\* rejection rejects Promise.all, which the catch rethrows: the call raises;
\* once every call of the round is fulfilled their ids are pushed in the
\* order of the documents, and the call pauses before the next round or
\* returns the ids.  A call that has raised takes no notice any more.
ItemSettled(b, item, result) ==
  LET outcomes == [b.outcomes EXCEPT ![item] = result]
      round == BatchItems(b)
      results == b.results \o
                 [k \in 1..Cardinality(round) |-> outcomes[b.i + k].id]
  IN  IF b.pc # "waiting" THEN [b EXCEPT !.outcomes = outcomes]
      ELSE IF result.kind = "error"
      THEN [b EXCEPT !.pc = "done", !.outcomes = outcomes, !.result = result]
      ELSE IF \E k \in round : outcomes[k].kind # "id"
      THEN [b EXCEPT !.outcomes = outcomes]
      ELSE IF b.i + batchSize < Len(b.docs)
      THEN [b EXCEPT !.pc = "pause", !.outcomes = outcomes, !.results = results]
      ELSE [b EXCEPT !.pc = "done", !.outcomes = outcomes, !.results = results,
                     !.result = Ids(results)]

\* the indexDocument call of p, whose record is rec, returns an id or raises
IndexReturns(p, rec, result) ==
  /\ procs' = [procs EXCEPT ![p] = Idle]
  /\ IF rec.item = 0
     THEN lastCall' = Call(rec, result) /\ UNCHANGED batch
     ELSE batch' = ItemSettled(batch, rec.item, result) /\ UNCHANGED lastCall

\* p, whose record is rec, goes on once its generateEmbedding settled with
\* emb: a direct caller has its outcome; vectorSearch and hybridSearch issue
\* their store query with the vector, or catch the error and call bm25Search
Settle(p, rec, emb) ==
  IF rec.op = "embed"
  THEN /\ procs' = [procs EXCEPT ![p] = Idle]
       /\ lastCall' = Call(rec, emb)
       /\ UNCHANGED batch
  ELSE IF rec.op = "index"
  THEN IF emb.kind = "vector"
       THEN /\ procs' = [procs EXCEPT ![p] =
                  [rec EXCEPT !.pc = "insert", !.started = 0, !.wakeAt = 0]]
            /\ UNCHANGED << lastCall, batch >>
       ELSE IndexReturns(p, rec, emb)
  ELSE /\ procs' = [procs EXCEPT ![p] =
             IF emb.kind = "vector"
             THEN [rec EXCEPT !.pc = "query", !.started = 0, !.wakeAt = 0]
             ELSE CallBm25(rec)]
       /\ UNCHANGED << lastCall, batch >>

\* generateEmbedding(text) is entered by p, whose record is rec
EnterEmbedding(p, rec, text) ==
  LET s == StartEmbedding(text, cache, requestQueue, now)
  IN  /\ cache' = s.cache
      /\ requestQueue' = s.queue
      /\ admitLog' = IF s.phase = "admitted" THEN Append(admitLog, now) ELSE admitLog
      /\ cacheOp' = IF s.wr = NoOp THEN cacheOp ELSE s.wr
      /\ IF s.phase = "settled"
         THEN Settle(p, rec, s.emb)
         ELSE /\ procs' = [procs EXCEPT ![p] =
                    [rec EXCEPT !.pc = s.phase,
                                !.started = IF s.phase = "sleep" THEN now ELSE 0,
                                !.wakeAt = s.wakeAt]]
              /\ UNCHANGED << lastCall, batch >>
      /\ UNCHANGED << now, runs, apiKey, documents, lastRows >>

\* a caller invokes generateEmbedding(text)
GenerateEmbedding(p, text) ==
  /\ Free(p)
  /\ EnterEmbedding(p, [Idle EXCEPT !.op = "embed", !.text = text], text)

\* the sleep of checkRateLimit is over: the timestamp taken at entry is
\* pushed and checkRateLimit returns
Wake(p) ==
  /\ procs[p].pc = "sleep"
  /\ now >= procs[p].wakeAt
  /\ requestQueue' = Append(requestQueue, procs[p].started)
  /\ admitLog' = Append(admitLog, now)
  /\ procs' = [procs EXCEPT ![p].pc = "admitted", ![p].started = 0, ![p].wakeAt = 0]
  /\ UNCHANGED << now, runs, apiKey, cache, cacheOp, lastCall, documents, lastRows, batch >>

\* a fetch issued while checkRateLimit still sleeps
FetchWhileAsleep(p) ==
  /\ procs[p].pc \in {"admitted", "sleep"}
  /\ procs' = [procs EXCEPT ![p].pc = "fetch"]
  /\ UNCHANGED << now, runs, apiKey, cache, requestQueue, admitLog, cacheOp, lastCall,
                  documents, lastRows, batch >>
\* after checkRateLimit returned: the text is truncated and the fetch issued
Fetch(p) ==
  /\ procs[p].pc = "admitted"
  /\ procs' = [procs EXCEPT ![p].pc = "fetch"]
  /\ UNCHANGED << now, runs, apiKey, cache, requestQueue, admitLog, cacheOp, lastCall,
                  documents, lastRows, batch >>

\* a fetch that no timeout aborts
RespondNoAbort(p, r) ==
  /\ procs[p].pc = "fetch"
  /\ r.kind # "abort"
  /\ LET f == FinishFetch(procs[p].text, r, cache, now)
     IN  /\ cache' = f.cache
         /\ cacheOp' = IF f.wr = NoOp THEN cacheOp ELSE f.wr
         /\ Settle(p, procs[p], f.emb)
  /\ UNCHANGED << now, runs, apiKey, requestQueue, admitLog, documents, lastRows >>
\* the fetch of p comes back with r
Respond(p, r) ==
  /\ procs[p].pc = "fetch"
  /\ LET f == FinishFetch(procs[p].text, r, cache, now)
     IN  /\ cache' = f.cache
         /\ cacheOp' = IF f.wr = NoOp THEN cacheOp ELSE f.wr
         /\ Settle(p, procs[p], f.emb)
  /\ UNCHANGED << now, runs, apiKey, requestQueue, admitLog, documents, lastRows >>

\* what the probe query of isVectorSearchSupported can come back with: the
\* data_type of the embedding column, no row, or an error
ProbeOutcomes == {"USER-DEFINED", "text", "norows", "error"}

\* a probe whose catch assumes support
isVectorSearchSupportedOrError(outcome) == outcome \in {"USER-DEFINED", "error"}

\* isVectorSearchSupported, given the outcome of its query
isVectorSearchSupported(outcome) == outcome = "USER-DEFINED"

\* a caller invokes bm25Search(query, limit): its store query is issued
Bm25Search(p, query, limit) ==
  /\ Free(p)
  /\ procs' = [procs EXCEPT ![p] =
         CallBm25([Idle EXCEPT !.op = "bm25", !.text = query, !.limit = limit])]
  /\ lastCall' = NoCall
  /\ lastRows' = NoRows
  /\ UNCHANGED << now, runs, apiKey, cache, requestQueue, admitLog, cacheOp, documents, batch >>

\* a caller invokes vectorSearch(query, limit): the probe query is issued
VectorSearch(p, query, limit) ==
  /\ Free(p)
  /\ procs' = [procs EXCEPT ![p] = [Idle EXCEPT !.op = "vector", !.pc = "probe",
                                                !.text = query, !.limit = limit]]
  /\ lastCall' = NoCall
  /\ lastRows' = NoRows
  /\ UNCHANGED << now, runs, apiKey, cache, requestQueue, admitLog, cacheOp, documents, batch >>

\* a caller invokes hybridSearch(query, limit): the probe query is issued
HybridSearch(p, query, limit) ==
  /\ Free(p)
  /\ procs' = [procs EXCEPT ![p] = [Idle EXCEPT !.op = "hybrid", !.pc = "probe",
                                                !.text = query, !.limit = limit]]
  /\ lastCall' = NoCall
  /\ lastRows' = NoRows
  /\ UNCHANGED << now, runs, apiKey, cache, requestQueue, admitLog, cacheOp, documents, batch >>

\* a search that goes on to the embedding whatever the probe reported
ProbeResultIgnored(p, outcome) ==
  /\ procs[p].pc = "probe"
  /\ EnterEmbedding(p, [procs[p] EXCEPT !.probe =
                           IF isVectorSearchSupported(outcome) THEN "yes" ELSE "no"],
                    procs[p].text)

\* the probe query of p comes back: with vector support the search calls
\* generateEmbedding(query), without it it returns bm25Search(query, limit);
\* indexDocument calls generateEmbedding(fullText) with vector support, and
\* without it computes the deterministic embedding and issues its insert
ProbeResult(p, outcome) ==
  /\ procs[p].pc = "probe"
  /\ IF isVectorSearchSupported(outcome)
     THEN EnterEmbedding(p, [procs[p] EXCEPT !.probe = "yes"], procs[p].text)
     ELSE /\ procs' = [procs EXCEPT ![p] =
                IF procs[p].op = "index"
                THEN [procs[p] EXCEPT !.probe = "no", !.pc = "insert"]
                ELSE CallBm25([procs[p] EXCEPT !.probe = "no"])]
          /\ UNCHANGED << now, runs, apiKey, cache, requestQueue, admitLog, cacheOp,
                          lastCall, documents, lastRows, batch >>

\* the SearchResult[] the vector or hybrid store query of a caller can come
\* back with
StoreRows(rec) ==
  IF rec.op = "hybrid"
  THEN UNION { { Rows("hybrid", rec.limit, b, v, rows) :
                   rows \in HybridQuery(b, v, rec.limit) } :
               b \in bm25_results(documents), v \in vector_results(documents) }
  ELSE { Rows("vector", rec.limit, <<>>, <<>>, rows) :
           rows \in VectorQuery(documents, rec.limit) }

\* a search that answers a failed store query with an empty list
StoreResultNoFallback(p, outcome) ==
  /\ procs[p].pc = "query"
  /\ procs' = [procs EXCEPT ![p] = Idle]
  /\ lastCall' = Call(procs[p], List(procs[p].op))
  /\ lastRows' \in (IF outcome = "rows" THEN StoreRows(procs[p])
                    ELSE { Rows(procs[p].op, procs[p].limit, <<>>, <<>>, <<>>) })
  /\ UNCHANGED << now, runs, apiKey, cache, requestQueue, admitLog, cacheOp, documents, batch >>

\* the vector or hybrid store query of p comes back: its rows are mapped and
\* returned, an error is caught and bm25Search(query, limit) returned instead
StoreResult(p, outcome) ==
  /\ procs[p].pc = "query"
  /\ IF outcome = "rows"
     THEN /\ procs' = [procs EXCEPT ![p] = Idle]
          /\ lastCall' = Call(procs[p], List(procs[p].op))
          /\ lastRows' \in StoreRows(procs[p])
     ELSE /\ procs' = [procs EXCEPT ![p] = CallBm25(procs[p])]
          /\ UNCHANGED << lastCall, lastRows >>
  /\ UNCHANGED << now, runs, apiKey, cache, requestQueue, admitLog, cacheOp, documents, batch >>

\* a bm25Search whose catch rethrows
Bm25OutcomeRethrow(outcome) ==
  IF outcome = "rows" THEN List("bm25")
  ELSE IF outcome = "empty" THEN List("sample")
  ELSE Err("store query failed")

\* what bm25Search returns, given the outcome of its store query: the rows,
\* or the sample documents when there is no row or the query failed
Bm25Outcome(outcome) ==
  IF outcome = "rows" THEN List("bm25") ELSE List("sample")

\* the SearchResult[] bm25Search returns, given the outcome of its query
Bm25Rows(rec, outcome) ==
  IF outcome = "rows"
  THEN { Rows("bm25", rec.limit, <<>>, <<>>, rows) :
           rows \in Bm25Query(documents, rec.limit) }
  ELSE { Rows("sample", rec.limit, <<>>, <<>>,
              getSampleSearchResults(rec.text, rec.limit)) }

\* the bm25 store query of p comes back: with rows when documents match the
\* query, with none when no document does, or with an error
Bm25Result(p, outcome) ==
  /\ procs[p].pc = "bm25"
  /\ outcome = "rows" => Matching(documents) # {}
  /\ outcome = "empty" => Matching(documents) = {}
  /\ procs' = [procs EXCEPT ![p] = Idle]
  /\ lastCall' = Call(procs[p], Bm25Outcome(outcome))
  /\ lastRows' \in Bm25Rows(procs[p], outcome)
  /\ UNCHANGED << now, runs, apiKey, cache, requestQueue, admitLog, cacheOp, documents, batch >>

\* `${title}\n\n${content}`
FullText(title, content) == title \o << 10, 10 >> \o content

\* the indexDocument call of a document, up to its first await: the probe
\* query is issued
CallIndexDocument(doc, item) ==
  [Idle EXCEPT !.op = "index", !.pc = "probe",
               !.text = FullText(doc.title, doc.content),
               !.content = doc.content, !.item = item]

\* a caller invokes indexDocument(title, content)
IndexDocument(p, doc) ==
  /\ Free(p)
  /\ procs' = [procs EXCEPT ![p] = CallIndexDocument(doc, 0)]
  /\ UNCHANGED << now, runs, apiKey, cache, requestQueue, admitLog, cacheOp, lastCall,
                  documents, lastRows, batch >>

InsertMessage == "insert failed"

\* The row of the documents table an indexDocument call makes, as the queries
\* of the searches for StoreQuery see it: the row matches when its content
\* holds the word of the query, whatever the case, and its embedding, the
\* deterministic one of its full text, is at distance 0 of the query's when
\* the two vectors are the same.
NewRow(text, content) ==
  [tsRank |-> IF Includes(ToLowerCase(content), ToLowerCase(StoreQuery)) THEN 1 ELSE 0,
   distance |-> IF generateDeterministicEmbedding(text)
                     = generateDeterministicEmbedding(StoreQuery)
                THEN 0 ELSE 1]

\* an indexDocument that answers a failed insert with an id of its own
InsertResultSubstitutes(p, outcome) ==
  /\ procs[p].pc = "insert"
  /\ IF outcome = "ok"
     THEN /\ Len(documents) < MaxDocs
          /\ documents' = Append(documents, NewRow(procs[p].text, procs[p].content))
          /\ IndexReturns(p, procs[p], Id(Len(documents) + 1))
     ELSE /\ UNCHANGED documents
          /\ IndexReturns(p, procs[p], Id(0))
  /\ UNCHANGED << now, runs, apiKey, cache, requestQueue, admitLog, cacheOp, lastRows >>

\* the insert query of p comes back: with the id of the new row, which
\* indexDocument returns, or with an error, which indexDocument rethrows
InsertResult(p, outcome) ==
  /\ procs[p].pc = "insert"
  /\ IF outcome = "ok"
     THEN /\ Len(documents) < MaxDocs
          /\ documents' = Append(documents, NewRow(procs[p].text, procs[p].content))
          /\ IndexReturns(p, procs[p], Id(Len(documents) + 1))
     ELSE /\ UNCHANGED documents
          /\ IndexReturns(p, procs[p], Err(InsertMessage))
  /\ UNCHANGED << now, runs, apiKey, cache, requestQueue, admitLog, cacheOp, lastRows >>

\* the callers with no call in flight
FreeProcs == { p \in Procs : Free(p) }

\* One round of the loop of batchIndexDocuments: batch.map starts the
\* indexDocument call of every document of the round, each on a caller of its
\* own, and the loop awaits Promise.all.
StartRound(b) ==
  LET round == BatchItems(b)
      on == CHOOSE f \in [round -> FreeProcs] : \A k, l \in round : k # l => f[k] # f[l]
  IN  /\ Cardinality(FreeProcs) >= Cardinality(round)
      /\ procs' = [p \in Procs |->
                     IF \E k \in round : on[k] = p
                     THEN CallIndexDocument(b.docs[CHOOSE k \in round : on[k] = p],
                                            CHOOSE k \in round : on[k] = p)
                     ELSE procs[p]]
      /\ batch' = [b EXCEPT !.pc = "waiting"]

\* a caller invokes batchIndexDocuments(docs)
BatchIndexDocuments(docs) ==
  /\ batch.pc = "idle"
  /\ LET b == [pc |-> "idle", docs |-> docs, i |-> 0, results |-> <<>>,
               outcomes |-> [k \in 1..Len(docs) |-> NoResult], result |-> NoResult]
     IN  IF docs = <<>>
         THEN /\ batch' = [b EXCEPT !.pc = "done", !.result = Ids(<<>>)]
              /\ UNCHANGED procs
         ELSE StartRound(b)
  /\ UNCHANGED << now, runs, apiKey, cache, requestQueue, admitLog, cacheOp, lastCall,
                  documents, lastRows >>

\* a loop that starts the next round while the round before it is awaited
BatchResumeEarly ==
  /\ batch.pc \in {"pause", "waiting"}
  /\ batch.i + batchSize < Len(batch.docs)
  /\ StartRound([batch EXCEPT !.i = batch.i + batchSize])
  /\ UNCHANGED << now, runs, apiKey, cache, requestQueue, admitLog, cacheOp, lastCall,
                  documents, lastRows >>
\* the pause between two rounds is over: the next round starts
BatchResume ==
  /\ batch.pc = "pause"
  /\ StartRound([batch EXCEPT !.i = batch.i + batchSize])
  /\ UNCHANGED << now, runs, apiKey, cache, requestQueue, admitLog, cacheOp, lastCall,
                  documents, lastRows >>

\* ------------------------------------------------------------ orchestrator

\* the run ids startRun can hand out
RunIds == 1..MaxRuns

\* the agents of runWorkflow, in the order in which it awaits them
Agents == << "etl", "search", "analyst", "dba", "merge" >>

\* A run of the orchestrator: its status, the agent its workflow is
\* executing (0: none) and the await at which that agent stands, the steps
\* stored on the run, whether cancelRun marked it, and whether its fork was
\* merged into production.  No run is stored under an id not handed out yet.
NoRun == [status |-> "none", agent |-> 0, at |-> "none", steps |-> 0,
          cancelled |-> FALSE, merged |-> FALSE]

\* everything but the runs
searchVars == << now, apiKey, cache, requestQueue, procs, admitLog, cacheOp,
                 lastCall, documents, lastRows, batch >>

\* executeAgent calls the agent at position k: runMergeAgent validates the
\* state (ready) and either throws or awaits mergeFork, the other agents are
\* awaited as a whole
CallAgent(run, k, ready) ==
  IF Agents[k] = "merge"
  THEN IF ready THEN [run EXCEPT !.agent = k, !.at = "mergeFork"]
       ELSE [run EXCEPT !.agent = 0, !.at = "none", !.status = "failed"]
  ELSE [run EXCEPT !.agent = k, !.at = "agent"]

\* an agent threw: executeAgent and runWorkflow rethrow, and the catch of
\* executeWorkflow, then that of startRun, set the status
WorkflowFails(run) ==
  [run EXCEPT !.agent = 0, !.at = "none", !.status = "failed"]

\* the last agent returned: runWorkflow returns its steps and
\* executeWorkflow stores them and sets the status
WorkflowCompletes(run) ==
  [run EXCEPT !.agent = 0, !.at = "none", !.steps = Len(Agents),
              !.status = "completed"]

\* startRun: the run is stored as pending, and executeWorkflow runs up to
\* its first await: the status is running and the first agent is called
StartRun(r) ==
  /\ runs[r].status = "none"
  /\ \A q \in RunIds : q < r => runs[q].status # "none"
  /\ runs' = [runs EXCEPT ![r] = CallAgent([NoRun EXCEPT !.status = "running"], 1, TRUE)]
  /\ UNCHANGED searchVars

\* an agent other than the merge agent settles: the next agent is called, or
\* the workflow fails
AgentSettles(r, ok, ready) ==
  /\ runs[r].at = "agent"
  /\ runs' = [runs EXCEPT ![r] =
       IF ok THEN CallAgent(runs[r], runs[r].agent + 1, ready)
       ELSE WorkflowFails(runs[r])]
  /\ UNCHANGED searchVars

\* tigerWrapper.mergeFork settles: the fork is merged into production and
\* runMergeAgent awaits deleteService, or runMergeAgent rethrows
MergeForkSettles(r, ok) ==
  /\ runs[r].at = "mergeFork"
  /\ runs' = [runs EXCEPT ![r] =
       IF ok THEN [runs[r] EXCEPT !.merged = TRUE, !.at = "deleteService"]
       ELSE WorkflowFails(runs[r])]
  /\ UNCHANGED searchVars

\* tigerWrapper.deleteService settles: runMergeAgent awaits
\* verifyProductionState, or rethrows
DeleteServiceSettles(r, ok) ==
  /\ runs[r].at = "deleteService"
  /\ runs' = [runs EXCEPT ![r] =
       IF ok THEN [runs[r] EXCEPT !.at = "verify"] ELSE WorkflowFails(runs[r])]
  /\ UNCHANGED searchVars

\* verifyProductionState returns: the merge agent returns its result and the
\* workflow completes
VerifySettles(r) ==
  /\ runs[r].at = "verify"
  /\ runs' = [runs EXCEPT ![r] = WorkflowCompletes(runs[r])]
  /\ UNCHANGED searchVars

\* cancelRun(runId) on a run that is running
CancelRun(r) ==
  /\ runs[r].status = "running"
  /\ runs' = [runs EXCEPT ![r].status = "failed", ![r].cancelled = TRUE]
  /\ UNCHANGED searchVars
\* clearCache()
ClearCache ==
  /\ cache # <<>>
  /\ cache' = <<>>
  /\ cacheOp' = [op |-> "clear"]
  /\ UNCHANGED << now, runs, apiKey, requestQueue, procs, admitLog, lastCall,
                  documents, lastRows, batch >>

\* time passes, up to limit
Advance(limit) ==
  /\ now < limit
  /\ now' = now + 1
  /\ admitLog' = TrailingLog(admitLog, now + 1)
  /\ cacheOp' = NoOp
  /\ lastCall' = NoCall
  /\ lastRows' = NoRows
  /\ UNCHANGED << apiKey, cache, requestQueue, procs, documents, batch, runs >>

Tick == Advance(MaxTime)

\* the specification of the concurrent callers runs for one rate window
TickConc == Advance(RateWindow)

\* ---------------------------------------------------------- specifications

\* the steps of generateEmbedding calls made by the callers P with texts of
\* T, the provider answering with responses of R
EmbeddingStep(P, T, R) ==
  \/ \E p \in P, text \in T : GenerateEmbedding(p, text)
  \/ \E p \in P : Wake(p)
  \/ \E p \in P : Fetch(p)
  \/ \E p \in P, r \in R : Respond(p, r)

\* the state after the module is loaded, with one of the keys of K configured
InitWith(K) ==
  /\ now = 0
  /\ apiKey \in K
  /\ cache = <<>>
  /\ requestQueue = <<>>
  /\ procs = [p \in Procs |-> Idle]
  /\ admitLog = <<>>
  /\ cacheOp = NoOp
  /\ lastCall = NoCall
  /\ lastRows = NoRows
  /\ batch = NoBatch
  /\ runs = [r \in RunIds |-> NoRun]

\* One caller making one call after the other, with any key, any text and
\* any provider response, on an empty store.
Init == InitWith({"", "bad", "sk-live"}) /\ documents = <<>>

\* "Aa", "a" and " "
SeqTexts == { <<65, 97>>, <<97>>, <<32>> }

Next ==
  \/ EmbeddingStep({1}, SeqTexts, ProviderResponses)
  \/ ClearCache
  \/ Tick

Spec == Init /\ [][Next]_vars

\* Concurrent callers with a credential configured.
ConcTexts == { <<65, 97>>, <<97>>, <<65>> }

ConcResponses ==
  { r \in ProviderResponses :
      \/ r.kind = "status" /\ r.status = 401
      \/ r.kind = "json" /\ r.usage /\ r.data # <<>> /\ r.data[1].elems = <<1, 1>> }

InitConc == InitWith({"sk-live"}) /\ documents = <<>>

NextConc ==
  \/ EmbeddingStep(Procs, ConcTexts, ConcResponses)
  \/ ClearCache
  \/ TickConc

SpecConc == InitConc /\ [][NextConc]_vars

\* Concurrent callers with no usable credential configured.
InitNoKey == InitWith({"", "bad"}) /\ documents = <<>>

NextNoKey ==
  \/ \E p \in Procs, text \in Texts : GenerateEmbedding(p, text)
  \/ ClearCache
  \/ Tick

SpecNoKey == InitNoKey /\ [][NextNoKey]_vars

\* One caller making one search after the other, with any key, any provider
\* response and any outcome of the store queries, on an empty store and on
\* one whose two documents tie in the fused ranking.
SearchTexts == { <<97>>, <<32>> }

SearchTables ==
  { <<>>, << [tsRank |-> 2, distance |-> 1], [tsRank |-> 1, distance |-> 0] >> }

SearchLimit == 2

InitSearch == InitWith({"", "bad", "sk-live"}) /\ documents \in SearchTables

NextSearch ==
  \/ \E q \in SearchTexts : Bm25Search(1, q, SearchLimit)
  \/ \E q \in SearchTexts : VectorSearch(1, q, SearchLimit)
  \/ \E q \in SearchTexts : HybridSearch(1, q, SearchLimit)
  \/ \E outcome \in ProbeOutcomes : ProbeResult(1, outcome)
  \/ Wake(1)
  \/ Fetch(1)
  \/ \E r \in ProviderResponses : Respond(1, r)
  \/ \E outcome \in {"rows", "error"} : StoreResult(1, outcome)
  \/ \E outcome \in {"rows", "empty", "error"} : Bm25Result(1, outcome)
  \/ Tick

SpecSearch == InitSearch /\ [][NextSearch]_vars

\* One caller making one search after the other with no credential
\* configured, on every table of at most MaxDocs documents.
StoreLimits == 1..2

InitStore == InitWith({""}) /\ documents \in UNION { Tables(n) : n \in 0..MaxDocs }

NextStore ==
  \/ \E limit \in StoreLimits : Bm25Search(1, StoreQuery, limit)
  \/ \E limit \in StoreLimits : VectorSearch(1, StoreQuery, limit)
  \/ \E limit \in StoreLimits : HybridSearch(1, StoreQuery, limit)
  \/ \E outcome \in ProbeOutcomes : ProbeResult(1, outcome)
  \/ \E outcome \in {"rows", "error"} : StoreResult(1, outcome)
  \/ \E outcome \in {"rows", "empty", "error"} : Bm25Result(1, outcome)

SpecStore == InitStore /\ [][NextStore]_vars

\* Callers indexing documents, one by one and in batches, with no credential
\* configured, on a store that starts empty.  A document with a blank title
\* and content makes the embedding step of its indexDocument call raise.
IndexDocs == { [title |-> <<97>>, content |-> <<97>>],
               [title |-> <<>>, content |-> <<32>>] }

BatchInputs == UNION { [1..n -> IndexDocs] : n \in 0..MaxBatch }

InitBatch == InitWith({""}) /\ documents = <<>>

NextBatch ==
  \/ \E docs \in BatchInputs : BatchIndexDocuments(docs)
  \/ BatchResume
  \/ \E doc \in IndexDocs : IndexDocument(1, doc)
  \/ \E p \in Procs, outcome \in ProbeOutcomes : ProbeResult(p, outcome)
  \/ \E p \in Procs, outcome \in {"ok", "error"} : InsertResult(p, outcome)

SpecBatch == InitBatch /\ [][NextBatch]_vars

\* One caller indexing documents and then searching for StoreQuery, with no
\* credential configured, on a store that starts empty: "A" matches the
\* query in its content, "B" in its title only.
RoundTripDocs == { [title |-> <<97>>, content |-> <<65>>],
                   [title |-> <<97>>, content |-> <<66>>] }

RoundTripLimits == {1, 3}

InitRoundTrip == InitWith({""}) /\ documents = <<>>

NextRoundTrip ==
  \/ \E doc \in RoundTripDocs : IndexDocument(1, doc)
  \/ \E outcome \in {"ok", "error"} : InsertResult(1, outcome)
  \/ \E limit \in RoundTripLimits : Bm25Search(1, StoreQuery, limit)
  \/ \E limit \in RoundTripLimits : HybridSearch(1, StoreQuery, limit)
  \/ \E outcome \in ProbeOutcomes : ProbeResult(1, outcome)
  \/ \E outcome \in {"rows", "error"} : StoreResult(1, outcome)
  \/ \E outcome \in {"rows", "empty", "error"} : Bm25Result(1, outcome)

SpecRoundTrip == InitRoundTrip /\ [][NextRoundTrip]_vars

\* Concurrent callers with a credential whose provider calls all succeed,
\* over more than one rate window, so that entries of different ages meet
\* in the cache.
EvictResponses ==
  { r \in ProviderResponses :
      r.kind = "json" /\ r.usage /\ r.data # <<>> /\ r.data[1].elems = <<1, 1>> }

InitEvict == InitWith({"sk-live"}) /\ documents = <<>>

\* this specification runs until the tick after the first rate window
TickEvict == Advance(RateWindow + 1)

NextEvict ==
  \/ EmbeddingStep(Procs, ConcTexts, EvictResponses)
  \/ TickEvict

SpecEvict == InitEvict /\ [][NextEvict]_vars
\* Concurrent callers with a credential, whose provider calls succeed or are
\* aborted by the timeout, under the scheduling of the event loop: time
\* passes, a timer that is due fires (the sleep of checkRateLimit, the abort
\* of the fetch), and a call that was admitted goes on to its fetch.  Nothing
\* is assumed of the provider.  Calls start early enough for their sleep to
\* end by the last tick.
LiveTexts == { <<97>> }

LiveResponses ==
  { [kind |-> "abort"] } \cup EvictResponses

InitLive == InitWith({"sk-live"}) /\ documents = <<>>

NextLive ==
  \/ \E p \in Procs, text \in LiveTexts :
       now < RateWindow /\ GenerateEmbedding(p, text)
  \/ \E p \in Procs : Wake(p)
  \/ \E p \in Procs : Fetch(p)
  \/ \E p \in Procs, r \in LiveResponses : Respond(p, r)
  \/ TickEvict

\* what the event loop does of itself: it lets time pass, runs the callback
\* of a timer that is due and resumes a call whose await is over
LiveProgress ==
  \/ TickEvict
  \/ \E p \in Procs : Wake(p)
  \/ \E p \in Procs : Fetch(p)
  \/ \E p \in Procs : Respond(p, [kind |-> "abort"])

LiveFairness == WF_vars(LiveProgress)

SpecLive == InitLive /\ [][NextLive]_vars /\ LiveFairness
\* Clients starting runs of the orchestrator and cancelling them, while the
\* agents of their workflows succeed or fail.
InitRuns == InitWith({""}) /\ documents = <<>>

NextRuns ==
  \/ \E r \in RunIds : StartRun(r)
  \/ \E r \in RunIds, ok \in BOOLEAN, ready \in BOOLEAN : AgentSettles(r, ok, ready)
  \/ \E r \in RunIds, ok \in BOOLEAN : MergeForkSettles(r, ok)
  \/ \E r \in RunIds, ok \in BOOLEAN : DeleteServiceSettles(r, ok)
  \/ \E r \in RunIds : VerifySettles(r)
  \/ \E r \in RunIds : CancelRun(r)

SpecRuns == InitRuns /\ [][NextRuns]_vars
\* ------------------------------------------------------------------ claims

IsEmbed(call) == call.op = "embed"
IsSearch(call) == call.op \in {"bm25", "vector", "hybrid"}
NonEmpty(text) == Len(Trim(text)) > 0

\* C1: generateEmbedding on a text that is not empty after trimming returns a
\* vector whatever the provider call came back with; it never raises.
C1_NeverRaises ==
  (IsEmbed(lastCall) /\ NonEmpty(lastCall.text)) => lastCall.result.kind = "vector"

\* C2: bm25Search, vectorSearch and hybridSearch always return a list and
\* never raise, whatever the probe, the embedding and the store queries did.
C2_SearchReturnsList ==
  IsSearch(lastCall) => lastCall.result.kind = "list"

\* a vector or hybrid search of an empty query (its embedding step raised,
\* after a probe that reported support) came back with the sample documents
C2_Witness ==
  /\ lastCall.op \in {"vector", "hybrid"}
  /\ ~NonEmpty(lastCall.text)
  /\ lastCall.result = List("sample")

\* C3: at every instant at most maxRequestsPerMinute calls of checkRateLimit
\* have returned within the trailing window.
C3_WindowQuota == Len(admitLog) <= maxRequestsPerMinute

\* C4: after every cache operation, under any interleaving of the callers,
\* the cache holds at most MaxCacheSize entries.
C4_CacheBounded == Len(cache) <= MaxCacheSize

\* a write into the full cache evicted an entry while another call was waiting
\* for its provider response
C4_Witness ==
  /\ cacheOp.op = "evict"
  /\ Len(cache) = MaxCacheSize
  /\ \E p \in Procs : procs[p].pc = "fetch"

\* C5: getCachedEmbedding never returns the vector of an entry older than the
\* TTL: reading such an entry misses and removes the entry.
C5_NoStaleRead ==
  \A text \in Texts :
    LET key == generateCacheKey(Trim(text))
        i == CacheIndex(cache, key)
        look == getCachedEmbedding(cache, Trim(text), now)
    IN  (i # 0 /\ now - cache[i].timestamp > CACHE_TTL)
          => (~look.hit /\ CacheIndex(look.cache, key) = 0
              /\ Len(look.cache) = Len(cache) - 1)

\* a call has just read an entry older than the TTL and removed it
C5_Witness ==
  /\ cacheOp.op = "expire"
  /\ cacheOp.age > CACHE_TTL
  /\ \E p \in Procs : procs[p].pc \in {"sleep", "admitted"}
       /\ CacheIndex(cache, generateCacheKey(Trim(procs[p].text))) = 0

\* C6: a generateEmbedding call that finds a live entry for its text returns
\* the cached vector, issues no provider call and takes no admission of the
\* rate limiter; one that finds the entry expired goes to the provider, or
\* computes and stores the fallback when there is no credential.
C6_Step(p, text) ==
  LET cleanText == Trim(text)
      i == CacheIndex(cache, generateCacheKey(cleanText))
      live == i # 0 /\ now - cache[i].timestamp < CACHE_TTL
      expired == i # 0 /\ ~(now - cache[i].timestamp < CACHE_TTL)
  IN  /\ live =>
           /\ lastCall' = [op |-> "embed", text |-> text,
                           result |-> Vec(cache[i].embedding)]
           /\ procs'[p] = Idle
           /\ requestQueue' = requestQueue
           /\ admitLog' = admitLog
           /\ cache' = cache
      /\ expired =>
           \/ HasCredential /\ procs'[p].pc \in {"sleep", "admitted"}
           \/ /\ ~HasCredential
              /\ lastCall'.result = Vec(generateDeterministicEmbedding(cleanText))
              /\ cacheOp'.op \in {"set", "evict"}

C6_CacheHit ==
  [][\A p \in Procs, text \in Texts :
       (NonEmpty(text) /\ GenerateEmbedding(p, text)) => C6_Step(p, text)]_vars

\* with a credential configured, a call was served from the cache at a time
\* at which an entry can have expired
C6_Witness ==
  /\ HasCredential
  /\ cacheOp.op = "hit"
  /\ IsEmbed(lastCall)
  /\ lastCall.result.kind = "vector"
  /\ lastCall.result.embedding.src = "openai"
  /\ \A p \in Procs : procs[p].pc = "idle"
  /\ now >= CACHE_TTL

\* C7: two generateEmbedding calls for the same text made within the cache
\* TTL of each other return identical vectors (lastCall holds a call settled
\* at the present instant, so the two calls here are made at the same time).
C7_SameVectorWithinTtl ==
  [][(/\ IsEmbed(lastCall) /\ IsEmbed(lastCall')
      /\ lastCall.text = lastCall'.text
      /\ lastCall.result.kind = "vector"
      /\ lastCall'.result.kind = "vector")
       => lastCall'.result.embedding = lastCall.result.embedding]_vars

\* C8: with no provider credential configured, every generateEmbedding call
\* for a text returns the same vector as the call for that text before it,
\* whatever was embedded, evicted or cleared in between.
C8_SameVectorNoCredential ==
  [][(/\ ~HasCredential
      /\ IsEmbed(lastCall) /\ IsEmbed(lastCall')
      /\ lastCall.text = lastCall'.text
      /\ lastCall.result.kind = "vector")
       => lastCall'.result = lastCall.result]_vars

\* C9: every vector returned by generateEmbedding or held in the cache has
\* exactly `dimensions` elements, and a provider response whose vector has
\* another length is neither stored nor returned.
C9_Lengths ==
  /\ (IsEmbed(lastCall) /\ lastCall.result.kind = "vector")
       => Len(lastCall.result.embedding.elems) = dimensions
  /\ \A i \in 1..Len(cache) : Len(cache[i].embedding.elems) = dimensions

C9_WrongLength(r) ==
  r.kind = "json" /\ Len(r.data) > 0 /\ Len(r.data[1].elems) # dimensions

C9_Dimensions ==
  /\ []C9_Lengths
  /\ [][\A p \in Procs, r \in ProviderResponses :
          (C9_WrongLength(r) /\ Respond(p, r))
            => (cache' = cache /\ lastCall'.result.kind = "error")]_vars

\* a response with a vector of the wrong length was answered with the error,
\* and the cache holds a vector stored before
C9_Witness ==
  /\ IsEmbed(lastCall)
  /\ lastCall.result = Err(InvalidDimensionsMessage)
  /\ cache # <<>>

\* C10: generateEmbedding on a text that is empty after trimming raises the
\* empty-input error, issues no provider call and leaves the cache and the
\* rate window as they are.
C10_EmptyInput ==
  [][\A p \in Procs, text \in Texts :
       (~NonEmpty(text) /\ GenerateEmbedding(p, text))
         => /\ lastCall' = [op |-> "embed", text |-> text,
                            result |-> Err(EmptyTextMessage)]
            /\ procs' = procs
            /\ cache' = cache
            /\ requestQueue' = requestQueue
            /\ admitLog' = admitLog]_vars

\* a call with a blank text raised the empty-input error while the cache and
\* the rate window held entries
C10_Witness ==
  /\ IsEmbed(lastCall)
  /\ ~NonEmpty(lastCall.text)
  /\ lastCall.result = Err(EmptyTextMessage)
  /\ cache # <<>>
  /\ requestQueue # <<>>

\* the call of p returns in this step
Returns(p) == procs[p].pc # "idle" /\ procs'[p].pc = "idle"

\* the output of bm25Search: the rows of the keyword query or the samples
IsBm25Output(result) == result \in {List("bm25"), List("sample")}

\* C11 (as claimed): hybridSearch returns the output of bm25Search exactly
\* when the probe reported no vector support; whenever the probe reported
\* support its output is the fusion.
C11_DegradesExactly ==
  [][\A p \in Procs :
       (procs[p].op = "hybrid" /\ Returns(p))
         => (IsBm25Output(lastCall'.result) <=> procs[p].probe = "no")]_vars

\* C11 (amended): hybridSearch returns the output of bm25Search whenever the
\* probe reported no vector support, and also when the probe reported support
\* but the embedding step or the fused store query failed; its output is the
\* fusion exactly when the probe reported support and both steps succeeded.
C11_DegradesOnNoSupport ==
  [][\A p \in Procs :
       (procs[p].op = "hybrid" /\ Returns(p))
         => /\ procs[p].probe \in {"yes", "no"}
            /\ procs[p].probe = "no" =>
                 /\ IsBm25Output(lastCall'.result)
                 /\ lastRows'.from \in {"bm25", "sample"}
                 /\ lastRows'.limit = procs[p].limit
            /\ (lastCall'.result = List("hybrid") /\ lastRows'.from = "hybrid")
                 <=> (procs[p].probe = "yes" /\ procs[p].pc = "query")
            /\ procs[p].pc # "query" => IsBm25Output(lastCall'.result)]_vars

\* a hybridSearch whose probe reported no support returned the rows of the
\* keyword query
C11_Witness ==
  /\ lastCall.op = "hybrid"
  /\ lastCall.result = List("bm25")
  /\ lastRows.from = "bm25"
  /\ Len(lastRows.rows) = 2
  /\ cache = <<>>
  /\ requestQueue = <<>>

\* the rows of a hybridSearch that returned the fusion
Fused == lastRows.from = "hybrid"

\* C12: every document returned by a non-degraded hybridSearch has as its
\* hybridScore the sum, over the keyword and the vector candidate list, of
\* 1/(60 + rank), rank being its 1-based position in the list; a list that
\* does not hold the document contributes 0.
C12_ScoreOf(row) ==
  LET rb == Position(lastRows.keyword, row.id)
      rv == Position(lastRows.vector, row.id)
      h == row.hybridScore
  IN  /\ h[2] > 0
      /\ (rb > 0 /\ rv > 0) => h[1] * (60 + rb) * (60 + rv) = h[2] * ((60 + rb) + (60 + rv))
      /\ (rb > 0 /\ rv = 0) => h[1] * (60 + rb) = h[2]
      /\ (rb = 0 /\ rv > 0) => h[1] * (60 + rv) = h[2]
      /\ (rb = 0 /\ rv = 0) => h[1] = 0

C12_FusedScore ==
  Fused => \A k \in 1..Len(lastRows.rows) : C12_ScoreOf(lastRows.rows[k])

\* a fusion returned a document of both lists and a document of one list only
C12_Witness ==
  /\ Fused
  /\ \E k, l \in 1..Len(lastRows.rows) :
       /\ Position(lastRows.keyword, lastRows.rows[k].id) = 1
       /\ Position(lastRows.vector, lastRows.rows[k].id) = 1
       /\ Position(lastRows.keyword, lastRows.rows[l].id) = 0
       /\ Position(lastRows.vector, lastRows.rows[l].id) = 2

\* row x comes before row y: greater fused score, or the same and smaller id
C13_Before(x, y) ==
  \/ FracLess(y.hybridScore, x.hybridScore)
  \/ FracEq(x.hybridScore, y.hybridScore) /\ x.id < y.id

\* C13: the output of hybridSearch is sorted by fused score descending, ties
\* broken by document id ascending, and cut to the top limit: it holds the
\* first limit candidates of that order.
C13_SortedByScoreThenId ==
  Fused =>
    LET rows == lastRows.rows
        ids == Range(lastRows.keyword) \cup Range(lastRows.vector)
        out == { rows[k].id : k \in 1..Len(rows) }
    IN  /\ \A k, l \in 1..Len(rows) : k < l => C13_Before(rows[k], rows[l])
        /\ Len(rows) = (IF Cardinality(ids) < lastRows.limit
                        THEN Cardinality(ids) ELSE lastRows.limit)
        /\ \A id \in ids \ out : \A k \in 1..Len(rows) :
             C13_Before(rows[k], HybridRow(lastRows.keyword, lastRows.vector, id))

\* C14: every document in the output of a non-degraded hybridSearch is in at
\* least one of the two candidate lists, so it matches the query or has an
\* embedding, and its hybridScore is greater than 0.
C14_FromACandidateList ==
  Fused => \A k \in 1..Len(lastRows.rows) :
    LET row == lastRows.rows[k]
    IN  /\ row.id \in Range(lastRows.keyword) \cup Range(lastRows.vector)
        /\ row.id \in Matching(documents) \cup Embedded(documents)
        /\ FracLess(Frac(0, 1), row.hybridScore)

\* a fusion returned fewer documents than its limit on a store that holds a
\* document of neither list
C14_Witness ==
  /\ Fused
  /\ Len(lastRows.rows) > 0
  /\ Len(lastRows.rows) < lastRows.limit
  /\ \E id \in DOMAIN documents : id \notin Matching(documents) \cup Embedded(documents)

\* C17: every result returned by bm25Search has vectorScore = 0 and
\* hybridScore = bm25Score, the results returned on an empty store or after a
\* failed store query included.
C17_KeywordScores ==
  lastRows.from \in {"bm25", "sample"} =>
    \A k \in 1..Len(lastRows.rows) :
      /\ FracEq(lastRows.rows[k].vectorScore, Frac(0, 1))
      /\ FracEq(lastRows.rows[k].hybridScore, lastRows.rows[k].bm25Score)

\* C15: after any sequence of checkRateLimit calls, those that had to sleep
\* included, the rate window holds at most maxRequestsPerMinute timestamps.
C15_WindowHolds == Len(requestQueue) <= maxRequestsPerMinute

\* C16: a call that enters checkRateLimit when maxRequestsPerMinute calls
\* have returned from it within the last window does not return at once: it
\* sleeps, and not for less than until one window after the oldest of them.
C16_DelayedByWindow ==
  [][\A p \in Procs, text \in Texts :
       (/\ GenerateEmbedding(p, text)
        /\ procs'[p].pc \in {"sleep", "admitted"}
        /\ Len(admitLog) >= maxRequestsPerMinute)
         => /\ procs'[p].pc = "sleep"
            /\ procs'[p].wakeAt >= admitLog[1] + RateWindow]_vars

\* p runs vectorSearch or hybridSearch
OnVectorPath(p) == procs[p].op \in {"vector", "hybrid"}

\* C18: when the capability probe reports no vector support, or its query
\* fails, vectorSearch and hybridSearch call bm25Search without invoking the
\* embedding generator: no provider call is made and the cache and the rate
\* window are left as they are, up to the return of the search.
C18_Frame(p) ==
  /\ cache' = cache
  /\ cacheOp' = cacheOp
  /\ requestQueue' = requestQueue
  /\ admitLog' = admitLog

C18_NoEmbeddingWithoutSupport ==
  /\ [](\A p \in Procs :
          (OnVectorPath(p) /\ procs[p].probe = "no") => procs[p].pc = "bm25")
  /\ [][\A p \in Procs :
          /\ \A outcome \in {"text", "norows", "error"} :
               (OnVectorPath(p) /\ ProbeResult(p, outcome))
                 => /\ procs'[p] = [procs[p] EXCEPT !.pc = "bm25", !.probe = "no"]
                    /\ C18_Frame(p)
          /\ (OnVectorPath(p) /\ procs[p].probe = "no" /\ Returns(p))
               => /\ C18_Frame(p)
                  /\ IsBm25Output(lastCall'.result)]_vars

\* with a credential configured and the cache and the rate window in use, a
\* search whose probe reported no support is waiting for its keyword query
C18_Witness ==
  /\ HasCredential
  /\ \E p \in Procs : OnVectorPath(p) /\ procs[p].probe = "no" /\ procs[p].pc = "bm25"
  /\ cache # <<>>
  /\ requestQueue # <<>>

\* what a direct bm25Search(query, limit) can return on the present store
C19_Bm25Returns(query, limit) ==
  LET rec == [Idle EXCEPT !.op = "bm25", !.text = query, !.limit = limit]
  IN  UNION { Bm25Rows(rec, outcome) :
                outcome \in { o \in {"rows", "empty", "error"} :
                                /\ o = "rows" => Matching(documents) # {}
                                /\ o = "empty" => Matching(documents) = {} } }

\* C19: whenever the embedding step or the store query of vectorSearch or
\* hybridSearch fails, the method calls bm25Search with its own query and
\* limit and returns what that returns; rows of the vector path are returned
\* only by a call whose store query succeeded.
C19_FallsBackToKeyword ==
  [][\A p \in Procs :
       /\ (OnVectorPath(p) /\ procs[p].probe = "yes" /\ procs[p].pc # "bm25"
           /\ \/ \E r \in ProviderResponses :
                   Respond(p, r) /\ FinishFetch(procs[p].text, r, cache, now).emb.kind = "error"
              \/ StoreResult(p, "error")
              \/ (procs[p].pc = "probe" /\ ~NonEmpty(procs[p].text)
                  /\ ProbeResult(p, "USER-DEFINED")))
            => /\ procs'[p].pc = "bm25"
               /\ procs'[p].text = procs[p].text
               /\ procs'[p].limit = procs[p].limit
               /\ UNCHANGED << lastCall, lastRows >>
       /\ (OnVectorPath(p) /\ procs[p].pc = "bm25" /\ Returns(p))
            => /\ IsBm25Output(lastCall'.result)
               /\ lastCall'.text = procs[p].text
               /\ lastRows' \in C19_Bm25Returns(procs[p].text, procs[p].limit)
       /\ (OnVectorPath(p) /\ Returns(p) /\ lastRows'.from \in {"vector", "hybrid"})
            => procs[p].pc = "query"]_vars

\* a search whose probe reported support and whose provider call was admitted
\* is waiting for the keyword query it fell back to, on a store with documents
C19_Witness ==
  /\ \E p \in Procs : OnVectorPath(p) /\ procs[p].probe = "yes" /\ procs[p].pc = "bm25"
  /\ requestQueue # <<>>
  /\ documents # <<>>

\* C20: in batchIndexDocuments a failure to index one document is recorded
\* for that document only: once the call is over and no indexDocument call is
\* in flight any more, every document whose indexing did not fail, of the
\* same round and of the later rounds, has been indexed and its id is among
\* the ids returned to the caller.
C20_FailureIsPerItem ==
  (batch.pc = "done" /\ \A p \in Procs : Free(p)) =>
    \A k \in 1..Len(batch.docs) :
      batch.outcomes[k].kind # "error"
        => /\ batch.outcomes[k].kind = "id"
           /\ batch.result.kind = "ids"
           /\ batch.outcomes[k].id \in Range(batch.result.ids)

\* what the indexDocument call of p hands to its caller in this step: to a
\* direct caller, or to the batchIndexDocuments call it belongs to
C21_Result(p) ==
  IF procs[p].item = 0 THEN lastCall'.result ELSE batch'.outcomes[procs[p].item]

\* C21: indexDocument returns an id only in the step in which its insert
\* succeeded, and the id is that of the row the insert added; when the insert
\* fails the call raises the error of the insert, returns no id, and the
\* store is as it was.
C21_IdOnlyAfterInsert ==
  [][\A p \in Procs :
       (procs[p].op = "index" /\ Returns(p)) =>
         /\ C21_Result(p).kind \in {"id", "error"}
         /\ C21_Result(p).kind = "id" =>
              /\ procs[p].pc = "insert"
              /\ Len(documents') = Len(documents) + 1
              /\ C21_Result(p).id = Len(documents')
         /\ (procs[p].pc = "insert" /\ documents' = documents) =>
              C21_Result(p) = Err(InsertMessage)]_vars

\* a direct indexDocument call raised the error of its insert, on a store
\* that holds a document of an earlier call
C21_Witness ==
  /\ lastCall.op = "index"
  /\ lastCall.result = Err(InsertMessage)
  /\ documents # <<>>

\* the store holds one document, the one an indexDocument call inserted, and
\* its content matches the query of the searches
C22_OnlyThatDocument == Len(documents) = 1 /\ documents[1].tsRank > 0

\* the search of p returns in this step
C22_SearchReturns(p) ==
  /\ procs[p].op \in {"bm25", "hybrid"}
  /\ procs[p].op = "hybrid" => procs[p].limit = 3
  /\ procs[p].text = StoreQuery
  /\ Returns(p)

\* the results returned in this step hold the document, with a hybridScore
\* above 0
C22_ReturnsTheDocument ==
  \E k \in DOMAIN lastRows'.rows :
    /\ lastRows'.rows[k].id = 1
    /\ FracLess(Frac(0, 1), lastRows'.rows[k].hybridScore)

C23_FirstInBoth(id) ==
  Position(lastRows.keyword, id) = 1 /\ Position(lastRows.vector, id) = 1

\* the document id is in one candidate list of the fusion only
C23_InOneOnly(id) ==
  (Position(lastRows.keyword, id) = 0) # (Position(lastRows.vector, id) = 0)

\* C23: in the output of a fused hybridSearch, a document that is first in
\* both candidate lists has a strictly greater hybridScore than any document
\* that is in one list only, whatever its rank there, and comes before it:
\* wherever such a document is returned, the first one is returned earlier.
C23_FirstInBothWins ==
  Fused =>
    \A a \in Range(lastRows.keyword) \cap Range(lastRows.vector) :
      \A l \in 1..Len(lastRows.rows) :
        (C23_FirstInBoth(a) /\ C23_InOneOnly(lastRows.rows[l].id)) =>
          \E k \in 1..(l - 1) :
            /\ lastRows.rows[k].id = a
            /\ FracLess(lastRows.rows[l].hybridScore, lastRows.rows[k].hybridScore)

\* a fusion returned the document that is first in both lists and, after it,
\* a document that only the keyword list holds
C23_Witness ==
  /\ Fused
  /\ \E k, l \in 1..Len(lastRows.rows) :
       /\ C23_FirstInBoth(lastRows.rows[k].id)
       /\ Position(lastRows.keyword, lastRows.rows[l].id) = 2
       /\ Position(lastRows.vector, lastRows.rows[l].id) = 0
       /\ k < l

\* C24: a checkRateLimit call that had to sleep evaluates the window again
\* when it wakes, pruning it and checking the count, before it is admitted,
\* and the timestamp it appends is the time of its admission, not the time at
\* which the call began.
C24_AdmittedAtWake ==
  [][\A p \in Procs :
       (procs[p].pc = "sleep" /\ procs'[p].pc = "admitted") =>
         /\ Len(PruneQueue(requestQueue, now)) < maxRequestsPerMinute
         /\ requestQueue' = Append(PruneQueue(requestQueue, now), now)]_vars

\* C25: under any interleaving of the callers the timestamps of requestQueue
\* are in non-decreasing order, so that its first element is the oldest
\* admission it holds.
C25_QueueSorted ==
  \A i, j \in 1..Len(requestQueue) : i < j => requestQueue[i] <= requestQueue[j]

\* the generateEmbedding call of p returns in this step: at once, or after
\* its provider call
C26_EmbedReturns(p) ==
  \/ procs[p].op = "embed" /\ Returns(p)
  \/ \E text \in Texts : GenerateEmbedding(p, text) /\ Free(p)'

\* C26: whenever generateEmbedding returns a vector for a text, from the
\* provider, from the cache or from the deterministic fallback, the cache
\* holds right after the return an entry for that text that is younger than
\* the TTL.
C26_ReturnedIsCached ==
  [][\A p \in Procs :
       (C26_EmbedReturns(p) /\ lastCall'.result.kind = "vector") =>
         LET i == CacheIndex(cache', generateCacheKey(Trim(lastCall'.text)))
         IN  i # 0 /\ now' - cache'[i].timestamp < CACHE_TTL]_vars

\* C27: a store of a new entry into a full cache removes exactly one entry,
\* which is not the new one and whose timestamp is the smallest of the
\* entries the cache held, also when concurrent generateEmbedding calls for
\* one text have each stored it.
C27_EvictsOldest ==
  [][(cacheOp'.op = "evict" /\ cache' # cache /\ Len(cache) = MaxCacheSize) =>
       \E i \in 1..Len(cache) :
         /\ Len(cache') = MaxCacheSize
         /\ cache' = Append(RemoveAt(cache, i), cache'[Len(cache')])
         /\ CacheIndex(cache, cache'[Len(cache')].key) = 0
         /\ \A j \in 1..Len(cache) : cache[i].timestamp <= cache[j].timestamp]_vars

\* the call of p is past its cache lookup and on the provider path: in
\* checkRateLimit, admitted, or waiting for the provider
C28_OnProviderPath(p) == procs[p].pc \in {"sleep", "admitted", "fetch"}

\* C28: a provider call is issued only by a generateEmbedding call that found
\* a credential, missed the cache and was admitted by the rate limiter
\* before, in an admission of its own: each admission appends to the window
\* and is followed by one provider call of the admitted call and no other, so
\* that there are never more provider calls than admissions; with no
\* credential there is no admission and no provider call.
C28_AdmittedBeforeCall ==
  /\ [](~HasCredential =>
          /\ requestQueue = <<>>
          /\ admitLog = <<>>
          /\ \A p \in Procs : ~C28_OnProviderPath(p))
  /\ [][\A p \in Procs :
          /\ (~C28_OnProviderPath(p) /\ C28_OnProviderPath(p)') =>
               /\ HasCredential
               /\ ~getCachedEmbedding(cache, Trim(procs'[p].text), now).hit
               /\ procs'[p].pc \in {"sleep", "admitted"}
          /\ (procs[p].pc # "admitted" /\ procs'[p].pc = "admitted") =>
               /\ admitLog' = Append(admitLog, now)
               /\ Len(requestQueue') =
                    Len(IF procs[p].pc = "sleep" THEN requestQueue
                        ELSE PruneQueue(requestQueue, now)) + 1
          /\ (procs[p].pc # "fetch" /\ procs'[p].pc = "fetch") =>
               /\ procs[p].pc = "admitted"
               /\ UNCHANGED << requestQueue, admitLog >>
          /\ (procs[p].pc = "admitted" /\ procs'[p].pc # "admitted") =>
               procs'[p].pc = "fetch"
          /\ (procs[p].pc = "fetch" /\ procs'[p].pc # "fetch") =>
               ~C28_OnProviderPath(p)']_vars

\* a call that had to sleep in checkRateLimit was admitted and has its
\* provider call in flight
C28_Witness ==
  /\ HasCredential
  /\ \E p \in Procs : procs[p].pc = "fetch"
  /\ Len(requestQueue) > maxRequestsPerMinute

\* C29: every generateEmbedding call completes in the end: a caller that the
\* rate limiter put to sleep leaves its sleep admitted, and a provider call
\* that gets no answer is aborted by its timeout, upon which the call returns
\* the deterministic embedding of its trimmed text.
C29_EveryCallCompletes ==
  /\ \A p \in Procs : (procs[p].pc # "idle") ~> (procs[p].pc = "idle")
  /\ [][\A p \in Procs :
          /\ (procs[p].pc = "sleep" /\ procs'[p].pc # "sleep") =>
               procs'[p].pc = "admitted"
          /\ Respond(p, [kind |-> "abort"]) =>
               /\ Free(p)'
               /\ lastCall'.result =
                    Vec(generateDeterministicEmbedding(Trim(procs[p].text)))]_vars

\* a call that had to sleep in checkRateLimit was admitted, its provider call
\* was aborted and it returned the deterministic embedding
C29_Witness ==
  /\ HasCredential
  /\ Len(requestQueue) > maxRequestsPerMinute
  /\ IsEmbed(lastCall)
  /\ lastCall.result = Vec(generateDeterministicEmbedding(Trim(lastCall.text)))
  /\ \A p \in Procs : Free(p)

\* the callers running an indexDocument call that batchIndexDocuments made
C30_InFlight == { p \in Procs : procs[p].op = "index" /\ procs[p].item # 0 }

\* C30: batchIndexDocuments takes its documents in consecutive groups of
\* batchSize: at most batchSize of its indexDocument calls are in flight at
\* any time, all for documents of the current group, and a group is started
\* only from the pause between two groups, when every document of the groups
\* before it has been indexed and none of their calls is in flight.
C30_GroupsInTurn ==
  /\ [](batch.pc # "idle" =>
          /\ Cardinality(C30_InFlight) <= batchSize
          /\ \A p \in C30_InFlight : procs[p].item \in BatchItems(batch)
          /\ \A p, q \in C30_InFlight : procs[p].item = procs[q].item => p = q
          /\ batch.i % batchSize = 0
          /\ \A k \in 1..Len(batch.docs) :
               k <= batch.i => batch.outcomes[k].kind = "id")
  /\ [][(batch.pc # "idle" /\ batch'.i # batch.i) =>
          /\ batch.pc = "pause"
          /\ C30_InFlight = {}
          /\ batch'.i = batch.i + batchSize
          /\ \A k \in BatchItems(batch) : batch.outcomes[k].kind = "id"
          /\ { procs'[p].item : p \in C30_InFlight' } = BatchItems(batch')]_vars

\* the call of the document of the second group is in flight, after the
\* documents of the first group were indexed
C30_Witness ==
  /\ batch.pc = "waiting"
  /\ batch.i = batchSize
  /\ C30_InFlight # {}
  /\ \A k \in 1..batchSize : batch.outcomes[k].kind = "id"

\* list holds, best first, the first MaxCandidates of the documents of S as
\* worse, the pairs <<x, y>> with x ranked strictly worse than y, ranks them:
\* as many as there are up to MaxCandidates, each once, none ranked strictly
\* worse than a document before it or than a document of S left out
C31_TopRanks(list, S, worse) ==
  /\ Len(list) = (IF Cardinality(S) < MaxCandidates THEN Cardinality(S)
                  ELSE MaxCandidates)
  /\ Range(list) \subseteq S
  /\ \A i, j \in 1..Len(list) : i < j =>
       list[i] # list[j] /\ << list[i], list[j] >> \notin worse
  /\ \A x \in Range(list), y \in S \ Range(list) : << x, y >> \notin worse

C32_Normalized(text) == Trim(ToLowerCase(text))

\* C32: two texts that are equal after trimming and lower-casing have the
\* same cache key: a generateEmbedding call for one of them, made while the
\* cache holds an entry younger than the TTL under the key of the other, is
\* served from that entry.
C32_NormalizedTextsShareEntry ==
  [][\A p \in Procs, text \in Texts, other \in Texts :
       LET i == CacheIndex(cache, generateCacheKey(Trim(other)))
       IN  (/\ NonEmpty(text)
            /\ C32_Normalized(text) = C32_Normalized(other)
            /\ i # 0
            /\ now - cache[i].timestamp < CACHE_TTL
            /\ GenerateEmbedding(p, text))
             => /\ generateCacheKey(Trim(text)) = generateCacheKey(Trim(other))
                /\ cacheOp'.op = "hit"
                /\ lastCall'.result = Vec(cache[i].embedding)]_vars

\* C33: getCachedEmbedding returns for a text only a vector that
\* cacheEmbedding stored for that very text, so that generateEmbedding never
\* returns the embedding of another text: with no credential, where the
\* vector stored for a text is its deterministic embedding, a call served
\* from the cache returns the deterministic embedding of its own text.
C33_HitIsOfSameText ==
  [][\A p \in Procs, text \in Texts :
       (/\ ~HasCredential
        /\ NonEmpty(text)
        /\ GenerateEmbedding(p, text)
        /\ getCachedEmbedding(cache, Trim(text), now).hit)
         => lastCall'.result = Vec(generateDeterministicEmbedding(Trim(text)))]_vars

\* C34: every document a batchIndexDocuments call persisted has its id
\* delivered to the caller: when the call is over, by returning or by
\* raising, the id of every document it inserted is among the ids it
\* returned.
C34_PersistedIdsDelivered ==
  batch.pc = "done" =>
    \A k \in 1..Len(batch.docs) :
      batch.outcomes[k].kind = "id"
        => /\ batch.result.kind = "ids"
           /\ batch.outcomes[k].id \in Range(batch.result.ids)

\* C35: of the generateEmbedding calls for one text that are in flight
\* together with a credential configured, at most one has a provider call in
\* flight: the others wait for it and receive its vector.
C35_OneProviderCallPerText ==
  \A p, q \in Procs :
    (/\ p # q
     /\ procs[p].pc = "fetch"
     /\ procs[q].pc = "fetch")
      => Trim(procs[p].text) # Trim(procs[q].text)

\* C36: every SearchResult that bm25Search, vectorSearch or hybridSearch
\* returns refers to a document that is in the document store.
C36_ResultsAreInTheStore ==
  lastRows.from # "none" =>
    \A k \in 1..Len(lastRows.rows) : lastRows.rows[k].id \in DOMAIN documents

\* C37: the terminal status of a run is final: once the status of a run is
\* failed, set by cancelRun or by a failure of its workflow, or completed, no
\* later step of its workflow changes it.
C37_TerminalStatusIsFinal ==
  [][\A r \in RunIds :
       runs[r].status \in {"failed", "completed"}
         => runs'[r].status = runs[r].status]_vars

\* C38: after cancelRun returned for a running run, no further agent of the
\* workflow of that run is called, and its fork is not merged into
\* production.
C38_NoAgentAfterCancel ==
  [][\A r \in RunIds :
       runs[r].cancelled =>
         /\ runs'[r].agent \in {runs[r].agent, 0}
         /\ runs'[r].merged = runs[r].merged]_vars

====
